---- MODULE Spec2Model ----
(***************************************************************************)
(* Token and session management of strava-hooks: the CSRF state ledger,    *)
(* the upstream token store, the bearer-token codec, the revocation ledger *)
(* and the HTTP handlers that drive them (src/app/store.go,                *)
(* src/unnamed/part_009, src/unnamed/part_005, src/unnamed/part_008).      *)
(*                                                                         *)
(* Time is counted in ticks, TicksPerSecond ticks to the second, so that   *)
(* the whole-second arithmetic of the store (EXPIRE, TTL, Unix()) is       *)
(* modelled as the arithmetic it is and not as the identity.               *)
(* The requests in flight are the bag reqs; one action is one step of a    *)
(* handler, the steps being delimited by the calls to the store and to the *)
(* provider.                                                               *)
(***************************************************************************)
EXTENDS Integers, Sequences, FiniteSets, Bags, TLC

\* ---------------------------------------------------------------- bounds
TicksPerSecond == 5
MaxLogins == 1
MaxReqs == 2
MaxRefreshes == 2
MaxRevokes == 1
MaxFetches == 1
MaxPolls == 2

\* ------------------------------------------------------ program constants
StateTTLSeconds == 600
JWTTTLSeconds == 2592000
CLISessionTTLSeconds == 60

Secret == "secret"
WrongSecret == "other-secret"

Athletes == {1, 2}

\* ------------------------------------------------------------ time helpers
Seconds(n) == n * TicksPerSecond

\* time.Time.Unix(): whole seconds, rounded down
Unix(t) == t \div TicksPerSecond

\* ------------------------------------------------------------------ strings
\* A string is a sequence of symbols. The 64 hex digits of one random token
\* are one symbol (hex digits never contain ':'); every other symbol is a
\* single character.
HexNames == <<"h1", "h2", "h3", "h4", "h5", "h6", "h7", "h8">>
HexTokens == {HexNames[i] : i \in 1..MaxLogins}

\* one random identifier for each request that can be in flight
JtiNames == <<"j1", "j2", "j3", "j4">>
JTIs == {JtiNames[i] : i \in 1..MaxReqs}

JtiIndex(j) == CHOOSE i \in 1..MaxReqs : JtiNames[i] = j

Colon == ":"

DigitChars == <<"0", "1", "2", "3", "4", "5", "6", "7", "8", "9">>

\* fmt.Sprintf("%d", n) for n >= 0
RECURSIVE FormatInt(_)
FormatInt(n) ==
    IF n < 10 THEN <<DigitChars[n + 1]>>
    ELSE FormatInt(n \div 10) \o <<DigitChars[(n % 10) + 1]>>

\* ------------------------------------------------------------- the store
\* One Redis key: whether it exists, its value, and its expiry (volatile
\* keys only). A key whose expiry has passed is removed when time advances.
Absent == [set |-> FALSE, val |-> <<>>, volatile |-> FALSE, exp |-> 0]

Persistent(v) == [set |-> TRUE, val |-> v, volatile |-> FALSE, exp |-> 0]

Volatile(v, e) == [set |-> TRUE, val |-> v, volatile |-> TRUE, exp |-> e]

\* Redis removes a volatile key once the clock is past its expiry
ExpireKeys(kv, t) ==
    [k \in DOMAIN kv |->
        IF kv[k].set /\ kv[k].volatile /\ t > kv[k].exp THEN Absent ELSE kv[k]]

\* SET key value EX seconds
RedisSetExNoExpiry(kv, k, v, seconds, t) ==
    [kv EXCEPT ![k] = Persistent(v)]

RedisSetEx(kv, k, v, seconds, t) ==
    [kv EXCEPT ![k] = Volatile(v, t + Seconds(seconds))]

\* SET key value
RedisSetPersist(kv, k, v) == [kv EXCEPT ![k] = Persistent(v)]

\* SET key value KEEPTTL
RedisSetKeepTTL(kv, k, v) ==
    [kv EXCEPT ![k] = IF kv[k].set /\ kv[k].volatile
                      THEN Volatile(v, kv[k].exp)
                      ELSE Persistent(v)]

\* GETDEL key
RedisGetDelNoDel(kv, k) == [found |-> kv[k].set, val |-> kv[k].val, kv |-> kv]

RedisGetDel(kv, k) ==
    [found |-> kv[k].set, val |-> kv[k].val, kv |-> [kv EXCEPT ![k] = Absent]]

RedisHSetLost(kv, k, v) == [j \in DOMAIN kv |-> kv[j]]

\* HSET key field value ...: creates the hash, or overwrites the fields and
\* leaves the expiry of an existing key alone
RedisHSet(kv, k, v) ==
    [kv EXCEPT ![k] = IF kv[k].set THEN [kv[k] EXCEPT !.val = v]
                      ELSE Persistent(v)]

\* EXPIRE key seconds
RedisExpire(kv, k, seconds, t) ==
    [kv EXCEPT ![k] = IF kv[k].set
                      THEN Volatile(kv[k].val, t + Seconds(seconds))
                      ELSE kv[k]]

\* EXISTS key
RedisExists(kv, k) == IF kv[k].set THEN 1 ELSE 0

\* TTL key: -2 without the key, -1 without an expiry, else the remaining
\* time in seconds rounded to the nearest second, (ms + 500) / 1000
RedisTTL(kv, k, t) ==
    IF ~kv[k].set THEN 0 - 2
    ELSE IF ~kv[k].volatile THEN 0 - 1
    ELSE (2 * (kv[k].exp - t) + TicksPerSecond) \div (2 * TicksPerSecond)

\* go-redis Expire(key, d): the seconds of d rounded down; a positive d
\* below one second is sent as 1
FormatSec(d) ==
    IF d > 0 /\ d < TicksPerSecond THEN 1 ELSE d \div TicksPerSecond

\* go-redis Set(key, value, expiration) with the expiration that TTL
\* returned (n seconds; -1 and -2 stay -1ns and -2ns): a positive
\* expiration is sent as EX, KeepTTL (-1ns) as KEEPTTL, anything else sets
\* no expiry at all
GoSetTTL(kv, k, v, n, t) ==
    IF n > 0 THEN RedisSetEx(kv, k, v, n, t)
    ELSE IF n = 0 - 1 THEN RedisSetKeepTTL(kv, k, v)
    ELSE RedisSetPersist(kv, k, v)

\* the session IDs a CLI client polls with
CliSessionIDs == {<<"s">>, <<"t">>}

\* ---------------------------------------------------------------- state
VARIABLES
    now,          \* the clock, in ticks
    oauthState,   \* keys oauth:state:<token>
    stravaToken,  \* keys athlete:<id>:strava-token
    jwtMeta,      \* keys jwt:jti:<jti>
    jwtRevoked,   \* keys jwt:revoked:<jti>
    cliSession,   \* keys cli-session:<sessionID>
    reqs,         \* the requests in flight
    ret,          \* what the last step returned to its caller
    randTokens,   \* state tokens generateStateToken has produced
    minted,       \* the bearer tokens GenerateJWT has produced, by jti
    hist          \* history of the run (never read by the program)

vars == <<now, oauthState, stravaToken, jwtMeta, jwtRevoked, cliSession, reqs, ret,
          randTokens, minted, hist>>

stores == <<oauthState, stravaToken, jwtMeta, jwtRevoked, cliSession>>

NoClaims == [made |-> FALSE, sub |-> 0, exp |-> 0, iat |-> 0, jti |-> "", key |-> ""]

\* no stage of a CLI session yet
NoStage == [set |-> FALSE, token |-> NoClaims, at |-> 0]

\* What a step returns: the operation, its argument (a state value, or the
\* identifier of a bearer token, or an athlete), the HTTP status when a
\* handler answers, the error ("" for none) and the value.
NoRet == [op |-> "none", arg |-> <<>>, jti |-> "", status |-> 0, err |-> "",
          val |-> <<>>, flag |-> FALSE,
          athlete |-> 0, access |-> "", expires_at |-> 0, calls |-> 0,
          saved |-> FALSE, token |-> NoClaims, msg |-> "", at |-> 0]

Ret(op, arg, status, err, val) == [NoRet EXCEPT !.op = op, !.arg = arg,
                                     !.status = status, !.err = err, !.val = val]

RetJ(op, jti, status, err, flag) == [NoRet EXCEPT !.op = op, !.jti = jti,
                                      !.status = status, !.err = err, !.flag = flag]

\* what fetchTokenInfo returns to request r: the token pair, flag says it
\* is a refreshed one, saved that the store took it
RetFetch(r, err, pair, flag, saved) ==
    [NoRet EXCEPT !.op = "fetchTokenInfo", !.jti = r.jti, !.athlete = r.athlete,
                  !.status = IF ~r.handler THEN 0 ELSE IF err = "" THEN 200 ELSE 500,
                  !.err = err, !.access = pair.access,
                  !.expires_at = pair.expires_at, !.calls = r.calls,
                  !.flag = flag, !.saved = saved]

InitHist ==
    [issued      |-> {},                          \* state values handed out
     okValues    |-> {},                          \* state values consumed with success
     okConsumes  |-> 0,                           \* number of successful consumes
     exchanges   |-> 0,                           \* provider code exchanges
     saves       |-> 0,                           \* upstream saves by callbacks
     mints       |-> 0,                           \* bearer tokens minted
     handed      |-> {},                          \* jti of tokens handed out
     registered  |-> {},                          \* jti ever registered
     revokedOk   |-> {},                          \* jti of successful revokes
     refreshes   |-> 0,                           \* pairs the provider refreshed
     mintedAt    |-> [j \in JTIs |-> 0],           \* when GenerateJWT was called
     mintedFor   |-> [j \in JTIs |-> 0],           \* and with what duration
     staged      |-> [c \in CliSessionIDs |-> NoStage],  \* last stage of a session
     retrieved   |-> [c \in CliSessionIDs |-> 0]]  \* retrieves of a session since its stage

Init ==
    /\ now = 0
    /\ oauthState = [h \in HexTokens |-> Absent]
    /\ stravaToken = [a \in Athletes |-> Absent]
    /\ jwtMeta = [j \in JTIs |-> Absent]
    /\ jwtRevoked = [j \in JTIs |-> Absent]
    /\ cliSession = [c \in CliSessionIDs |-> Absent]
    /\ reqs = EmptyBag
    /\ ret = NoRet
    /\ randTokens = {}
    /\ minted = [j \in JTIs |-> NoClaims]
    /\ hist = InitHist

\* ------------------------------------------------------ CSRF state ledger
\* The state value handed to the client: "token" or "token:sessionID"
StateValue(h, sessionID) ==
    IF sessionID # <<>> THEN <<h, Colon>> \o sessionID ELSE <<h>>

\* The loop of GetOAuthState: index of the first ':' (0-based), -1 if none
RECURSIVE FirstColonFrom(_, _)
FirstColonFrom(s, i) ==
    IF i > Len(s) THEN 0 - 1
    ELSE IF s[i] = Colon THEN i - 1
    ELSE FirstColonFrom(s, i + 1)

ColonIndex(s) == FirstColonFrom(s, 1)

SplitStateNoSession(state) ==
    LET colonIndex == ColonIndex(state) IN
    IF colonIndex > 0
    THEN [stateToken |-> SubSeq(state, 1, colonIndex), sessionID |-> <<>>]
    ELSE [stateToken |-> state, sessionID |-> <<>>]

SplitStateLastColon(state) ==
    LET colons == {i \in 1..Len(state) : state[i] = Colon}
        colonIndex == IF colons = {} THEN 0 - 1
                      ELSE (CHOOSE i \in colons : \A j \in colons : j <= i) - 1
    IN
    IF colonIndex > 0
    THEN [stateToken |-> SubSeq(state, 1, colonIndex),
          sessionID  |-> SubSeq(state, colonIndex + 2, Len(state))]
    ELSE [stateToken |-> state, sessionID |-> <<>>]

\* stateToken, sessionID of GetOAuthState
SplitState(state) ==
    LET colonIndex == ColonIndex(state) IN
    IF colonIndex > 0
    THEN [stateToken |-> SubSeq(state, 1, colonIndex),
          sessionID  |-> SubSeq(state, colonIndex + 2, Len(state))]
    ELSE [stateToken |-> state, sessionID |-> <<>>]

\* The key oauth:state:<stateToken> names an entry only when stateToken is
\* one whole random token.
IsTokenKey(stateToken) == Len(stateToken) = 1 /\ stateToken[1] \in HexTokens

ErrInvalidState == "invalid or expired state token"
ErrMismatch == "session ID mismatch"

\* Store.GetOAuthState: err, the session ID returned, and the store after
GetOAuthState(kv, state) ==
    LET parts == SplitState(state)
        got == IF IsTokenKey(parts.stateToken)
               THEN RedisGetDel(kv, parts.stateToken[1])
               ELSE [found |-> FALSE, val |-> <<>>, kv |-> kv]
    IN  IF ~got.found
        THEN [err |-> ErrInvalidState, sessionID |-> <<>>, kv |-> got.kv]
        ELSE IF parts.sessionID # <<>> /\ got.val # parts.sessionID
        THEN [err |-> ErrMismatch, sessionID |-> <<>>, kv |-> got.kv]
        ELSE [err |-> "", sessionID |-> parts.sessionID, kv |-> got.kv]

\* history of one consume of `state`
NoteConsume(h, state, res) ==
    IF res.err = ""
    THEN [h EXCEPT !.okValues = @ \cup {state}, !.okConsumes = @ + 1]
    ELSE h

\* the random source never repeats a token: the next one is the first
\* that has not been drawn
HasFresh(drawn) == Cardinality(drawn) < MaxLogins

FreshHex(drawn) == HexNames[Cardinality(drawn) + 1]

\* Store.SaveOAuthState(sessionID)
SaveOAuthState(sessionID) ==
    /\ HasFresh(randTokens)
    /\  LET h == FreshHex(randTokens)
            value == IF sessionID # <<>> THEN sessionID
                     ELSE FormatInt(Unix(now))
            state == StateValue(h, sessionID)
        IN  /\ randTokens' = randTokens \cup {h}
            /\ oauthState' = RedisSetEx(oauthState, h, value, StateTTLSeconds, now)
            /\ hist' = [hist EXCEPT !.issued = @ \cup {state}]
            /\ ret' = Ret("SaveOAuthState", sessionID, 0, "", state)
            /\ UNCHANGED <<now, cliSession, stravaToken, jwtMeta, jwtRevoked, reqs, minted>>

\* Store.GetOAuthState(state), called on its own
GetOAuthStateCall(state) ==
    LET res == GetOAuthState(oauthState, state) IN
    /\ oauthState' = res.kv
    /\ hist' = NoteConsume(hist, state, res)
    /\ ret' = Ret("GetOAuthState", state, 0, res.err, res.sessionID)
    /\ UNCHANGED <<now, cliSession, stravaToken, jwtMeta, jwtRevoked, reqs, randTokens, minted>>

\* ------------------------------------------------------- symmetric cipher
ValidSecrets == {Secret, WrongSecret}

\* SecretKeyFromHex: the key, or an error for a secret that is not hex or
\* is shorter than 32 bytes
SecretKeyFromHex(hexSecret) ==
    [ok |-> hexSecret \in ValidSecrets, key |-> hexSecret]

NoBox == [sealed |-> FALSE, key |-> "", pt |-> ""]

\* Encrypt: the sealed box of the plaintext under the key
Encrypt(plaintext, hexSecret) ==
    LET k == SecretKeyFromHex(hexSecret) IN
    IF ~k.ok THEN [ok |-> FALSE, ct |-> NoBox]
    ELSE [ok |-> TRUE, ct |-> [sealed |-> TRUE, key |-> k.key, pt |-> plaintext]]

\* Decrypt: fails on a value that is no sealed box ("ciphertext too short")
\* and on a box sealed under another key
Decrypt(ciphertext, hexSecret) ==
    LET k == SecretKeyFromHex(hexSecret) IN
    IF ~ciphertext.sealed \/ ~k.ok \/ ciphertext.key # k.key
    THEN [ok |-> FALSE, pt |-> ""]
    ELSE [ok |-> TRUE, pt |-> ciphertext.pt]

\* ---------------------------------------------------- upstream token store
NoPair == [access |-> "", refresh |-> "", expires_at |-> 0]

NoRecord == [access_token |-> NoBox, refresh_token |-> NoBox, expires_at |-> 0]

SaveTokenPlain(kv, athleteId, token, storeOk) ==
    IF ~storeOk
    THEN [ok |-> FALSE, kv |-> kv]
    ELSE [ok |-> TRUE,
          kv |-> RedisHSet(kv, athleteId,
                   [access_token  |-> [NoBox EXCEPT !.pt = token.access],
                    refresh_token |-> [NoBox EXCEPT !.pt = token.refresh],
                    expires_at    |-> token.expires_at])]

SaveTokenKeepsExpiry(kv, athleteId, token, storeOk) ==
    LET encryptedAccessToken == Encrypt(token.access, Secret)
        encryptedRefreshToken == Encrypt(token.refresh, Secret)
        old == IF kv[athleteId].set THEN kv[athleteId].val.expires_at ELSE 0
    IN  IF ~encryptedAccessToken.ok \/ ~encryptedRefreshToken.ok \/ ~storeOk
        THEN [ok |-> FALSE, kv |-> kv]
        ELSE [ok |-> TRUE,
              kv |-> RedisHSet(kv, athleteId,
                       [access_token  |-> encryptedAccessToken.ct,
                        refresh_token |-> encryptedRefreshToken.ct,
                        expires_at    |-> old])]

\* Store.SaveToken: both fields encrypted, then one HSET of the three
\* fields; storeOk is whether the store accepts the write
SaveToken(kv, athleteId, token, storeOk) ==
    LET encryptedAccessToken == Encrypt(token.access, Secret)
        encryptedRefreshToken == Encrypt(token.refresh, Secret)
    IN  IF ~encryptedAccessToken.ok \/ ~encryptedRefreshToken.ok \/ ~storeOk
        THEN [ok |-> FALSE, kv |-> kv]
        ELSE [ok |-> TRUE,
              kv |-> RedisHSet(kv, athleteId,
                       [access_token  |-> encryptedAccessToken.ct,
                        refresh_token |-> encryptedRefreshToken.ct,
                        expires_at    |-> token.expires_at])]

\* the token pairs the provider hands out
AccessNames == <<"access1", "access2", "access3", "access4", "access5", "access6">>

RefreshNames == <<"refresh1", "refresh2", "refresh3", "refresh4", "refresh5", "refresh6">>

Pair(n, e) == [access |-> AccessNames[n], refresh |-> RefreshNames[n], expires_at |-> e]

\* Store.fetchTokenInfo up to its expiry test, at time t: HMGET of the three
\* fields (all empty when the key is absent), both tokens decrypted, and
\* the stored expiry compared with the clock in whole seconds
ErrDecryptAccess == "failed to decrypt access token"
ErrDecryptRefresh == "failed to decrypt refresh token"

FetchRecordAlwaysExpired(kv, athleteId, t) ==
    LET rec == IF kv[athleteId].set THEN kv[athleteId].val ELSE NoRecord
        accessToken == Decrypt(rec.access_token, Secret)
        refreshToken == Decrypt(rec.refresh_token, Secret)
    IN  [err |-> IF ~accessToken.ok THEN ErrDecryptAccess
                 ELSE IF ~refreshToken.ok THEN ErrDecryptRefresh ELSE "",
         tokenInfo |-> [access |-> accessToken.pt, refresh |-> refreshToken.pt,
                        expires_at |-> rec.expires_at],
         expired |-> TRUE]

FetchRecord(kv, athleteId, t) ==
    LET rec == IF kv[athleteId].set THEN kv[athleteId].val ELSE NoRecord
        accessToken == Decrypt(rec.access_token, Secret)
        refreshToken == Decrypt(rec.refresh_token, Secret)
    IN  [err |-> IF ~accessToken.ok THEN ErrDecryptAccess
                 ELSE IF ~refreshToken.ok THEN ErrDecryptRefresh ELSE "",
         tokenInfo |-> [access |-> accessToken.pt, refresh |-> refreshToken.pt,
                        expires_at |-> rec.expires_at],
         expired |-> rec.expires_at < Unix(t)]

\* ------------------------------------------------------ bearer token codec
\* GenerateJWT(athleteID, secret, expirationDuration) at time t with the
\* random identifier jti: exp and iat are NumericDates, whole seconds
GenerateJWT(athleteID, secret, expirationDuration, jti, t) ==
    [made |-> TRUE, sub |-> athleteID, exp |-> Unix(t + expirationDuration),
     iat |-> Unix(t), jti |-> jti, key |-> secret]

VerifyJWTAnyKey(token, secret, t) ==
    /\ token.made
    /\ t < Seconds(token.exp)
    /\ t >= Seconds(token.iat)

\* VerifyJWT at time t: the HMAC signature under secret, and the exp and
\* nbf claims the parser validates (now before exp, now not before nbf)
VerifyJWT(token, secret, t) ==
    /\ token.made
    /\ token.key = secret
    /\ t < Seconds(token.exp)
    /\ t >= Seconds(token.iat)

\* generateJTI: 32 bytes of the random source, which never repeats; the
\* next identifier is the first that has not been drawn
HasFreshJTI(m) == \E j \in JTIs : ~m[j].made

FreshJTIRepeats(m) ==
    CHOOSE j \in JTIs : \A j2 \in JTIs : JtiIndex(j) <= JtiIndex(j2)

FreshJTI(m) ==
    CHOOSE j \in JTIs :
        /\ ~m[j].made
        /\ \A j2 \in JTIs : ~m[j2].made => JtiIndex(j) <= JtiIndex(j2)

ErrVerify == "invalid token"

\* GenerateJWT(athleteID, secret, expirationDuration), called on its own
GenerateJWTCall(athleteID, secret, expirationDuration) ==
    /\ HasFreshJTI(minted)
    /\ LET jti == FreshJTI(minted)
           claims == GenerateJWT(athleteID, secret, expirationDuration, jti, now)
       IN  /\ minted' = [minted EXCEPT ![jti] = claims]
           /\ hist' = [hist EXCEPT !.mints = @ + 1,
                                   !.mintedAt[jti] = now,
                                   !.mintedFor[jti] = expirationDuration]
           /\ ret' = [RetJ("GenerateJWT", jti, 0, "", TRUE) EXCEPT !.token = claims,
                                                               !.athlete = athleteID]
    /\ UNCHANGED <<now, stores, reqs, randTokens>>

\* VerifyJWT(tokenString, secret), called on its own: the claims, or an
\* error; arg names the secret and the token that were passed
VerifyJWTCall(token, secret) ==
    /\ IF VerifyJWT(token, secret, now)
       THEN ret' = [RetJ("VerifyJWT", token.jti, 0, "", TRUE) EXCEPT
                        !.arg = <<secret, token.jti>>, !.token = token,
                        !.athlete = token.sub]
       ELSE ret' = [RetJ("VerifyJWT", "", 0, ErrVerify, FALSE) EXCEPT
                        !.arg = <<secret, token.jti>>]
    /\ UNCHANGED <<now, stores, reqs, randTokens, minted, hist>>

\* ------------------------------------------------------- revocation ledger
\* Store.IsJWTRevoked
IsJWTRevoked(kv, jti) == RedisExists(kv, jti) > 0

ErrNotFound == "token not found or already expired"

\* Store.RevokeJWTToken, its three calls to the store
RevokeExists(kv, jti) == RedisExists(kv, jti)

RevokeNotFoundNever(exists) == exists < 0

\* if exists == 0 { return "token not found or already expired" }
RevokeNotFound(exists) == exists = 0

RevokeTTL(kv, jti, t) == RedisTTL(kv, jti, t)

RevokeSetAll(kv, jti, ttl, t) == [j \in DOMAIN kv |-> GoSetTTL(kv, j, Unix(t), ttl, t)[j]]

RevokeSetOnlyPositive(kv, jti, ttl, t) ==
    IF ttl > 0 THEN GoSetTTL(kv, jti, Unix(t), ttl, t) ELSE kv

RevokeSet(kv, jti, ttl, t) == GoSetTTL(kv, jti, Unix(t), ttl, t)

\* ---------------------------------------------------------- authentication
ErrInvalidToken == "Invalid or expired token"
ErrExpired == "token has expired"
ErrRevoked == "token has been revoked"

AuthenticateTokenNoLedger(token, t) ==
    IF ~VerifyJWT(token, Secret, t) THEN ErrInvalidToken
    ELSE IF token.exp < Unix(t) THEN ErrExpired
    ELSE ""

\* ServerState.AuthenticateToken at time t: the error, "" for a valid token
AuthenticateToken(token, t) ==
    IF ~VerifyJWT(token, Secret, t) THEN ErrInvalidToken
    ELSE IF token.exp < Unix(t) THEN ErrExpired
    ELSE IF IsJWTRevoked(jwtRevoked, token.jti) THEN ErrRevoked
    ELSE ""

\* the bearer tokens a client can present: those handed out, and forgeries
\* of them signed with another key
Presentable ==
    {minted[j] : j \in hist.handed}
        \cup {[minted[j] EXCEPT !.key = WrongSecret] : j \in hist.handed}

\* -------------------------------------- GET /token/callback (part_009:61)
NewCallback(code, state) ==
    [kind |-> "callback", pc |-> "GetOAuthState", code |-> code, state |-> state,
     consumed |-> FALSE, did |-> {}, token |-> NoPair, athlete |-> 0,
     claims |-> NoClaims, expiresAt |-> 0, ttl |-> 0]

\* the requests in flight, and the room for one more
InFlight == BagToSet(reqs)

HasRoom == BagCardinality(reqs) < MaxReqs

Start(r) == reqs' = reqs (+) SetToBag({r})

Finish(r) == reqs' = reqs (-) SetToBag({r})

Step(r, r2) == reqs' = (reqs (-) SetToBag({r})) (+) SetToBag({r2})

\* how many of the requests in flight are of one kind
InFlightOf(kind) ==
    BagCardinality([r \in {q \in InFlight : q.kind = kind} |-> reqs[r]])

\* the request arrives; one without code or state is answered at once
handleTokenCallback(code, state) ==
    /\ HasRoom
    /\ IF code = "" \/ state = <<>>
       THEN /\ ret' = Ret("handleTokenCallback", state, 400, "missing parameter", <<>>)
            /\ UNCHANGED reqs
       ELSE /\ Start(NewCallback(code, state))
            /\ ret' = NoRet
    /\ UNCHANGED <<now, stores, randTokens, minted, hist>>

\* if err != nil { ... return 403 }
StateRejectedOnlyUnknown(res) == res.err = ErrInvalidState

StateRejected(res) == res.err # ""

StateRejectionLeaks(err) == "rejected: " \o err

\* echo.NewHTTPError(http.StatusForbidden, "Invalid or expired state token"):
\* the message of the response, whatever err is
StateRejection(err) == "Invalid or expired state token"

\* err := s.store.GetOAuthState(state)
Callback_GetOAuthState(r) ==
    LET res == GetOAuthState(oauthState, r.state)
    IN  /\ r.kind = "callback" /\ r.pc = "GetOAuthState"
        /\ oauthState' = res.kv
        /\ hist' = NoteConsume(hist, r.state, res)
        /\ IF StateRejected(res)
           THEN /\ Finish(r)
                /\ ret' = [Ret("GetOAuthState", r.state, 403, res.err, <<>>)
                              EXCEPT !.msg = StateRejection(res.err)]
           ELSE /\ Step(r, [r EXCEPT !.pc = "exchangeCode",
                                        !.consumed = (res.err = "")])
                /\ ret' = Ret("GetOAuthState", r.state, 0, res.err, res.sessionID)
        /\ UNCHANGED <<now, cliSession, stravaToken, jwtMeta, jwtRevoked, randTokens, minted>>

\* token, err := exchangeCode(code, ...): the provider answers with a token
\* pair and an athlete, or the call fails
Callback_exchangeCode(r, ok, athlete, pair) ==
    /\ r.kind = "callback" /\ r.pc = "exchangeCode"
    /\ hist' = [hist EXCEPT !.exchanges = @ + 1]
    /\ IF ~ok
       THEN /\ Finish(r)
            /\ ret' = Ret("handleTokenCallback", r.state, 500, "exchange failed", <<>>)
       ELSE /\ Step(r, [r EXCEPT !.pc = "SaveToken", !.token = pair,
                                    !.athlete = athlete,
                                    !.did = @ \cup {"exchange"}])
            /\ ret' = NoRet
    /\ UNCHANGED <<now, stores, randTokens, minted>>

\* err = s.store.SaveToken(token.Athlete.ID, TokenInfo{...})
Callback_SaveToken(r, storeOk) ==
    LET res == SaveToken(stravaToken, r.athlete, r.token, storeOk)
    IN  /\ r.kind = "callback" /\ r.pc = "SaveToken"
        /\ stravaToken' = res.kv
        /\ IF ~res.ok
           THEN /\ Finish(r)
                /\ ret' = Ret("handleTokenCallback", r.state, 500, "failed to save token", <<>>)
                /\ UNCHANGED hist
           ELSE /\ Step(r, [r EXCEPT !.pc = "GenerateJWT",
                                        !.did = @ \cup {"save"}])
                /\ ret' = NoRet
                /\ hist' = [hist EXCEPT !.saves = @ + 1]
        /\ UNCHANGED <<now, cliSession, oauthState, jwtMeta, jwtRevoked, randTokens, minted>>

\* jwtToken, jti, err := GenerateJWT(...); issuedAt := time.Now();
\* expiresAt := issuedAt.Add(expirationDuration)
Callback_GenerateJWT(r) ==
    /\ r.kind = "callback" /\ r.pc = "GenerateJWT"
    /\ \E jti \in JTIs :
        /\ ~minted[jti].made
        /\ \A j2 \in JTIs : ~minted[j2].made => JtiIndex(jti) <= JtiIndex(j2)
        /\ LET claims == GenerateJWT(r.athlete, Secret, Seconds(JWTTTLSeconds), jti, now) IN
           /\ minted' = [minted EXCEPT ![jti] = claims]
           /\ Step(r, [r EXCEPT !.pc = "SaveJWTToken", !.claims = claims,
                                   !.expiresAt = now + Seconds(JWTTTLSeconds),
                                   !.did = @ \cup {"mint"}])
    /\ hist' = [hist EXCEPT !.mints = @ + 1]
    /\ ret' = NoRet
    /\ UNCHANGED <<now, stores, randTokens>>

\* the hash SaveJWTToken writes
JWTMetadata(athleteID, issuedAt, expiresAt) ==
    [athlete_id |-> athleteID,
     issued_at  |-> Unix(issuedAt),
     expires_at |-> Unix(expiresAt)]

\* SaveJWTToken, first half: ttl := time.Until(expiresAt), refused when not
\* positive, then the HSET of the metadata
Callback_SaveJWTToken(r) ==
    LET ttl == r.expiresAt - now
    IN  /\ r.kind = "callback" /\ r.pc = "SaveJWTToken"
        /\ IF ttl <= 0
           THEN /\ Finish(r)
                /\ ret' = Ret("handleTokenCallback", r.state, 500, "token already expired", <<>>)
                /\ UNCHANGED <<jwtMeta, hist>>
           ELSE /\ jwtMeta' = RedisHSet(jwtMeta, r.claims.jti,
                                          JWTMetadata(r.athlete,
                                                      r.expiresAt - Seconds(JWTTTLSeconds),
                                                      r.expiresAt))
                /\ Step(r, [r EXCEPT !.pc = "Expire", !.ttl = ttl])
                /\ ret' = NoRet
                /\ hist' = [hist EXCEPT !.registered = @ \cup {r.claims.jti}]
        /\ UNCHANGED <<now, cliSession, oauthState, stravaToken, jwtRevoked, randTokens, minted>>

\* SaveJWTToken, second half: EXPIRE with the ttl computed before the HSET;
\* then the 200 response that hands the bearer token out
Callback_Expire(r) ==
    LET jti == r.claims.jti
    IN  /\ r.kind = "callback" /\ r.pc = "Expire"
        /\ jwtMeta' = RedisExpire(jwtMeta, jti, FormatSec(r.ttl), now)
        /\ Finish(r)
        /\ hist' = [hist EXCEPT !.handed = @ \cup {jti}]
        /\ ret' = RetJ("handleTokenCallback", jti, 200, "", TRUE)
        /\ UNCHANGED <<now, cliSession, oauthState, stravaToken, jwtRevoked, randTokens, minted>>

\* ------------------------------------------ POST /token/verify (part_009:127)
handleTokenVerify(token) ==
    LET err == AuthenticateToken(token, now) IN
    /\ ret' = RetJ("AuthenticateToken", token.jti,
                   IF err = "" THEN 200 ELSE 401, err, token.key = Secret)
    /\ UNCHANGED <<now, stores, reqs, randTokens, minted, hist>>

\* Store.IsJWTRevoked(jti), called on its own
IsJWTRevokedCall(jti) ==
    /\ ret' = RetJ("IsJWTRevoked", jti, 0, "", IsJWTRevoked(jwtRevoked, jti))
    /\ UNCHANGED <<now, stores, reqs, randTokens, minted, hist>>

\* ------------------------------------------ POST /token/revoke (part_009:137)
NewRevoke(jti, pc, handler) ==
    [kind |-> "revoke", pc |-> pc, jti |-> jti, ttl |-> 0, handler |-> handler,
     athlete |-> 0]

\* VerifyJWT, then the IsJWTRevoked check, then RevokeJWTToken
handleTokenRevoke(token) ==
    /\ HasRoom
    /\ InFlightOf("revoke") < MaxRevokes
    /\ IF ~VerifyJWT(token, Secret, now)
       THEN /\ ret' = RetJ("handleTokenRevoke", token.jti, 401, ErrInvalidToken, FALSE)
            /\ UNCHANGED reqs
       ELSE IF IsJWTRevoked(jwtRevoked, token.jti)
       THEN /\ ret' = RetJ("handleTokenRevoke", token.jti, 400, "Token is already revoked", FALSE)
            /\ UNCHANGED reqs
       ELSE /\ Start([NewRevoke(token.jti, "Exists", TRUE)
                        EXCEPT !.athlete = token.sub])
            /\ ret' = NoRet
    /\ UNCHANGED <<now, stores, randTokens, minted, hist>>

\* Store.RevokeJWTToken(jti), called on its own: the call and its first
\* access to the store, exists, err := s.client.Exists(jwtKey)
RevokeJWTTokenCall(jti) ==
    /\ HasRoom
    /\ InFlightOf("revoke") < MaxRevokes
    /\ IF RevokeNotFound(RevokeExists(jwtMeta, jti))
       THEN /\ ret' = RetJ("RevokeJWTToken", jti, 0, ErrNotFound, FALSE)
            /\ UNCHANGED reqs
       ELSE /\ Start(NewRevoke(jti, "TTL", FALSE))
            /\ ret' = NoRet
    /\ UNCHANGED <<now, stores, randTokens, minted, hist>>

\* the same access in a request of the handler; exists == 0 is "not found"
Revoke_Exists(r) ==
    /\ r.kind = "revoke" /\ r.pc = "Exists"
    /\ IF RevokeNotFound(RevokeExists(jwtMeta, r.jti))
       THEN /\ Finish(r)
            /\ ret' = RetJ("RevokeJWTToken", r.jti, IF r.handler THEN 500 ELSE 0,
                           ErrNotFound, FALSE)
       ELSE /\ Step(r, [r EXCEPT !.pc = "TTL"])
            /\ ret' = NoRet
    /\ UNCHANGED <<now, stores, randTokens, minted, hist>>

\* ttl, err := s.client.TTL(jwtKey)
Revoke_TTL(r) ==
    /\ r.kind = "revoke" /\ r.pc = "TTL"
    /\ Step(r, [r EXCEPT !.pc = "Set", !.ttl = RevokeTTL(jwtMeta, r.jti, now)])
    /\ ret' = NoRet
    /\ UNCHANGED <<now, stores, randTokens, minted, hist>>

\* s.client.Set(revokeKey, time.Now().Unix(), ttl), and the return
Revoke_Set(r) ==
    /\ r.kind = "revoke" /\ r.pc = "Set"
    /\ jwtRevoked' = RevokeSet(jwtRevoked, r.jti, r.ttl, now)
    /\ Finish(r)
    /\ hist' = [hist EXCEPT !.revokedOk = @ \cup {r.jti}]
    /\ ret' = [RetJ("RevokeJWTToken", r.jti, IF r.handler THEN 200 ELSE 0, "", TRUE)
                  EXCEPT !.athlete = r.athlete]
    /\ UNCHANGED <<now, cliSession, oauthState, stravaToken, jwtMeta, randTokens, minted>>

\* ------------------------------------- GET /api/strava-token (part_009:186)
\* what held of the presented token when it was checked
AuthFacts(token, t) ==
    [sig |-> token.made /\ token.key = Secret,
     live |-> t < Seconds(token.exp),
     unrevoked |-> ~jwtRevoked[token.jti].set,
     sub |-> token.sub]

NoAuth == [sig |-> FALSE, live |-> FALSE, unrevoked |-> FALSE, sub |-> 0]

NewFetch(athlete, handler, jti, auth) ==
    [kind |-> "fetch", pc |-> "HMGet", athlete |-> athlete, handler |-> handler,
     jti |-> jti, auth |-> auth, tokenInfo |-> NoPair, newToken |-> NoPair,
     calls |-> 0]

\* AuthenticateRequest: 401 unless AuthenticateToken accepts the token; then
\* fetchTokenInfo(tokenInfo.athleteId)
handleStravaToken(token) ==
    /\ HasRoom
    /\ InFlightOf("fetch") < MaxFetches
    /\ LET err == AuthenticateToken(token, now) IN
       IF err # ""
       THEN /\ ret' = RetJ("handleStravaToken", token.jti, 401, err, FALSE)
            /\ UNCHANGED reqs
       ELSE /\ Start(NewFetch(token.sub, TRUE, token.jti, AuthFacts(token, now)))
            /\ ret' = NoRet
    /\ UNCHANGED <<now, stores, randTokens, minted, hist>>

\* Store.FetchToken(AthleteId), called on its own
FetchTokenCall(athleteId) ==
    /\ HasRoom
    /\ Start(NewFetch(athleteId, FALSE, "", NoAuth))
    /\ ret' = NoRet
    /\ UNCHANGED <<now, stores, randTokens, minted, hist>>

\* fetchTokenInfo: the read and the expiry test
Fetch_HMGet(r) ==
    /\ r.kind = "fetch" /\ r.pc = "HMGet"
    /\ LET res == FetchRecord(stravaToken, r.athlete, now) IN
       IF res.err # ""
       THEN /\ Finish(r)
            /\ ret' = RetFetch(r, res.err, NoPair, FALSE, FALSE)
       ELSE IF res.expired
       THEN /\ Step(r, [r EXCEPT !.pc = "refresh", !.tokenInfo = res.tokenInfo])
            /\ ret' = NoRet
       ELSE /\ Finish(r)
            /\ ret' = RetFetch(r, "", res.tokenInfo, FALSE, FALSE)
    /\ UNCHANGED <<now, stores, randTokens, minted, hist>>

\* refreshToken: the POST to the provider, which answers with an error or
\* with a pair it has not handed out before, good for one more second
ErrRefresh == "refresh request failed"

Fetch_refreshRetries(r, ok) ==
    /\ r.kind = "fetch" /\ r.pc = "refresh"
    /\ IF ~ok
       THEN /\ IF r.calls = 0
               THEN Step(r, [r EXCEPT !.calls = @ + 1]) /\ ret' = NoRet
               ELSE /\ Finish(r)
                    /\ ret' = RetFetch([r EXCEPT !.calls = @ + 1], ErrRefresh, NoPair, FALSE, FALSE)
            /\ UNCHANGED hist
       ELSE /\ hist.refreshes < MaxRefreshes
            /\ Step(r, [r EXCEPT !.pc = "SaveToken", !.calls = @ + 1,
                                 !.newToken = Pair(Cardinality(Athletes) + hist.refreshes + 1,
                                                   Unix(now) + 1)])
            /\ hist' = [hist EXCEPT !.refreshes = @ + 1]
            /\ ret' = NoRet
    /\ UNCHANGED <<now, stores, randTokens, minted>>

Fetch_refresh(r, ok) ==
    /\ r.kind = "fetch" /\ r.pc = "refresh"
    /\ IF ~ok
       THEN /\ Finish(r)
            /\ ret' = RetFetch([r EXCEPT !.calls = @ + 1], ErrRefresh, NoPair, FALSE, FALSE)
            /\ UNCHANGED hist
       ELSE /\ hist.refreshes < MaxRefreshes
            /\ Step(r, [r EXCEPT !.pc = "SaveToken", !.calls = @ + 1,
                                 !.newToken = Pair(Cardinality(Athletes) + hist.refreshes + 1,
                                                   Unix(now) + 1)])
            /\ hist' = [hist EXCEPT !.refreshes = @ + 1]
            /\ ret' = NoRet
    /\ UNCHANGED <<now, stores, randTokens, minted>>

\* refreshToken: s.SaveToken(AthleteId, newToken), its error dropped, and
\* the return of the new pair
Fetch_SaveToken(r, storeOk) ==
    /\ r.kind = "fetch" /\ r.pc = "SaveToken"
    /\ LET res == SaveToken(stravaToken, r.athlete, r.newToken, storeOk) IN
        /\ stravaToken' = res.kv
        /\ ret' = RetFetch(r, "", r.newToken, TRUE, res.ok)
    /\ Finish(r)
    /\ UNCHANGED <<now, cliSession, oauthState, jwtMeta, jwtRevoked, randTokens, minted, hist>>

\* ------------------------------------------ CLI sessions (store.go:272-300)
\* what GET does: the value of a live key, and no change to the store
RedisGet(kv, k) == [found |-> kv[k].set, val |-> kv[k].val, kv |-> kv]

ErrSessionNotFound == "session not found or expired"

SaveCLISessionNoTTL(kv, sessionID, jwt, t) ==
    RedisSetPersist(kv, sessionID, jwt)

\* Store.SaveCLISession: SET cli-session:<sessionID> with a TTL of 60 s
SaveCLISession(kv, sessionID, jwt, t) ==
    RedisSetEx(kv, sessionID, jwt, CLISessionTTLSeconds, t)

GetCLISessionGetDel(kv, sessionID) ==
    LET got == RedisGetDel(kv, sessionID) IN
    IF ~got.found
    THEN [err |-> ErrSessionNotFound, jwt |-> NoClaims, kv |-> got.kv]
    ELSE [err |-> "", jwt |-> got.val, kv |-> got.kv]

\* Store.GetCLISession: GET of the key; redis.Nil is "session not found or
\* expired"
GetCLISession(kv, sessionID) ==
    LET got == RedisGet(kv, sessionID) IN
    IF ~got.found
    THEN [err |-> ErrSessionNotFound, jwt |-> NoClaims, kv |-> got.kv]
    ELSE [err |-> "", jwt |-> got.val, kv |-> got.kv]

\* Store.SaveCLISession(sessionID, jwt), called on its own
SaveCLISessionCall(sessionID, jwt) ==
    /\ cliSession' = SaveCLISession(cliSession, sessionID, jwt, now)
    /\ hist' = [hist EXCEPT !.staged[sessionID] = [set |-> TRUE, token |-> jwt, at |-> now],
                            !.retrieved[sessionID] = 0]
    /\ ret' = [NoRet EXCEPT !.op = "SaveCLISession", !.arg = sessionID, !.token = jwt]
    /\ UNCHANGED <<now, oauthState, stravaToken, jwtMeta, jwtRevoked, reqs,
                   randTokens, minted>>

\* Store.GetCLISession(sessionID), called on its own
GetCLISessionCall(sessionID) ==
    LET res == GetCLISession(cliSession, sessionID) IN
    /\ cliSession' = res.kv
    /\ hist' = IF res.err = "" /\ hist.retrieved[sessionID] < MaxPolls
               THEN [hist EXCEPT !.retrieved[sessionID] = @ + 1]
               ELSE hist
    /\ ret' = [NoRet EXCEPT !.op = "GetCLISession", !.arg = sessionID,
                            !.err = res.err, !.token = res.jwt]
    /\ UNCHANGED <<now, oauthState, stravaToken, jwtMeta, jwtRevoked, reqs,
                   randTokens, minted>>

\* ------------------------------------------------------------------- time
\* Time passes from one observed instant to the next; the store drops the
\* keys that have expired by then.
Tick(instants) ==
    \E t \in instants :
        /\ t > now
        /\ \A u \in instants : u > now => t <= u
        /\ now' = t
        /\ oauthState' = ExpireKeys(oauthState, t)
        /\ stravaToken' = ExpireKeys(stravaToken, t)
        /\ jwtMeta' = ExpireKeys(jwtMeta, t)
        /\ jwtRevoked' = ExpireKeys(jwtRevoked, t)
        /\ cliSession' = ExpireKeys(cliSession, t)
        /\ ret' = NoRet
        /\ UNCHANGED <<reqs, randTokens, minted, hist>>

\* ------------------------------------------------------------ inputs
SessionIDs == {<<>>, <<"s">>}

\* what a client may present as the state parameter: nothing, a token
\* alone, or a token with a session ID
StateInputs ==
    {<<>>} \cup {<<h>> : h \in HexTokens}
           \cup {<<h, Colon, c>> : h \in HexTokens, c \in {"s", "t"}}

Codes == {"", "code"}

\* ------------------------------------- the CSRF state ledger on its own
CsrfInstants == {0, 1, Seconds(StateTTLSeconds), Seconds(StateTTLSeconds) + 1}

NextCsrf ==
    \/ \E sid \in SessionIDs : SaveOAuthState(sid)
    \/ \E st \in StateInputs : GetOAuthStateCall(st)
    \/ Tick(CsrfInstants)

SpecCsrf == Init /\ [][NextCsrf]_vars

\* ------------------------------------------------------------ login flow
LoginPairs == {Pair(1, 0)}

LoginInstants == {0, Seconds(StateTTLSeconds) + 1}

NextLogin ==
    \/ \E sid \in SessionIDs : SaveOAuthState(sid)
    \/ \E c \in Codes, st \in StateInputs : handleTokenCallback(c, st)
    \/ \E r \in InFlight : Callback_GetOAuthState(r)
    \/ \E r \in InFlight, ok \in BOOLEAN, p \in LoginPairs : Callback_exchangeCode(r, ok, 1, p)
    \/ \E r \in InFlight, ok \in BOOLEAN : Callback_SaveToken(r, ok)
    \/ \E r \in InFlight : Callback_GenerateJWT(r)
    \/ \E r \in InFlight : Callback_SaveJWTToken(r)
    \/ \E r \in InFlight : Callback_Expire(r)
    \/ Tick(LoginInstants)

SpecLogin == Init /\ [][NextLogin]_vars

\* ------------------------------------------------- the revocation ledger
\* Athlete 1 has logged in twice at time 0. The first login is complete: its
\* bearer token is registered and handed out. The callback of the second has
\* consumed its state, exchanged its code, saved the upstream pair and minted
\* its bearer token, and is about to register it.
LedgerStates == {HexNames[MaxLogins + 1], HexNames[MaxLogins + 2]}

LedgerClaims(i) == GenerateJWT(1, Secret, Seconds(JWTTTLSeconds), JtiNames[i], 0)

LedgerCallback ==
    [NewCallback("code", <<HexNames[MaxLogins + 2]>>)
        EXCEPT !.pc = "SaveJWTToken", !.consumed = TRUE,
               !.did = {"exchange", "save", "mint"},
               !.token = Pair(1, 0), !.athlete = 1,
               !.claims = LedgerClaims(2),
               !.expiresAt = Seconds(JWTTTLSeconds)]

InitLedger ==
    /\ now = 0
    /\ oauthState = [h \in HexTokens |-> Absent]
    /\ stravaToken = SaveToken([a \in Athletes |-> Absent], 1, Pair(1, 0), TRUE).kv
    /\ jwtMeta = RedisExpire(
                    RedisHSet([j \in JTIs |-> Absent], JtiNames[1],
                              JWTMetadata(1, 0, Seconds(JWTTTLSeconds))),
                    JtiNames[1], FormatSec(Seconds(JWTTTLSeconds)), 0)
    /\ jwtRevoked = [j \in JTIs |-> Absent]
    /\ cliSession = [c \in CliSessionIDs |-> Absent]
    /\ reqs = SetToBag({LedgerCallback})
    /\ ret = NoRet
    /\ randTokens = LedgerStates
    /\ minted = [j \in JTIs |-> IF j = JtiNames[1] THEN LedgerClaims(1)
                                ELSE IF j = JtiNames[2] THEN LedgerClaims(2)
                                ELSE NoClaims]
    /\ hist = [InitHist EXCEPT !.issued = {<<h>> : h \in LedgerStates},
                               !.okValues = {<<h>> : h \in LedgerStates},
                               !.okConsumes = Cardinality(LedgerStates),
                               !.exchanges = Cardinality(LedgerStates),
                               !.saves = Cardinality(LedgerStates),
                               !.mints = Cardinality(LedgerStates),
                               !.handed = {JtiNames[1]},
                               !.registered = {JtiNames[1]}]

\* the instants around the minting and around the expiry of the tokens
JWTTicks == Seconds(JWTTTLSeconds)

LedgerInstants ==
    {0, JWTTicks - Seconds(1) - 2, JWTTicks - 1, JWTTicks + 1}

NextLedger ==
    \/ \E r \in InFlight : Callback_SaveJWTToken(r)
    \/ \E r \in InFlight : Callback_Expire(r)
    \/ \E tok \in Presentable : handleTokenVerify(tok)
    \/ \E j \in JTIs : IsJWTRevokedCall(j)
    \/ \E j \in JTIs : RevokeJWTTokenCall(j)
    \/ \E r \in InFlight : Revoke_TTL(r)
    \/ \E r \in InFlight : Revoke_Set(r)
    \/ Tick(LedgerInstants)

SpecLedger == InitLedger /\ [][NextLedger]_vars

\* --------------------------------------------------- the token API
\* Athletes 1 and 2 have each logged in once at time 0: each has an upstream
\* record that expires after one second and a registered bearer token; the
\* clock is observed at the logins and after the bearer tokens have expired.
ApiClaims(a) == GenerateJWT(a, Secret, Seconds(JWTTTLSeconds), JtiNames[a], 0)

ApiRegister(kv, a) ==
    RedisExpire(RedisHSet(kv, JtiNames[a],
                          JWTMetadata(a, 0, Seconds(JWTTTLSeconds))),
                JtiNames[a], FormatSec(Seconds(JWTTTLSeconds)), 0)

ApiStates == {HexNames[MaxLogins + a] : a \in Athletes}

InitApi ==
    /\ now = 0
    /\ oauthState = [h \in HexTokens |-> Absent]
    /\ stravaToken = SaveToken(SaveToken([a \in Athletes |-> Absent],
                                         1, Pair(1, 1), TRUE).kv,
                               2, Pair(2, 1), TRUE).kv
    /\ jwtMeta = ApiRegister(ApiRegister([j \in JTIs |-> Absent], 1), 2)
    /\ jwtRevoked = [j \in JTIs |-> Absent]
    /\ cliSession = [c \in CliSessionIDs |-> Absent]
    /\ reqs = EmptyBag
    /\ ret = NoRet
    /\ randTokens = ApiStates
    /\ minted = [j \in JTIs |-> IF j = JtiNames[1] THEN ApiClaims(1)
                                ELSE IF j = JtiNames[2] THEN ApiClaims(2)
                                ELSE NoClaims]
    /\ hist = [InitHist EXCEPT !.issued = {<<h>> : h \in ApiStates},
                               !.okValues = {<<h>> : h \in ApiStates},
                               !.okConsumes = Cardinality(ApiStates),
                               !.exchanges = Cardinality(ApiStates),
                               !.saves = Cardinality(ApiStates),
                               !.mints = Cardinality(ApiStates),
                               !.handed = {JtiNames[1], JtiNames[2]},
                               !.registered = {JtiNames[1], JtiNames[2]}]

ApiInstants == {0, JWTTicks + 1}

NextApi ==
    \/ \E tok \in Presentable : handleStravaToken(tok)
    \/ \E r \in InFlight : Fetch_HMGet(r)
    \/ \E r \in InFlight, ok \in BOOLEAN : Fetch_refresh(r, ok)
    \/ \E r \in InFlight, storeOk \in BOOLEAN : Fetch_SaveToken(r, storeOk)
    \/ \E tok \in Presentable : handleTokenRevoke(tok)
    \/ \E r \in InFlight : Revoke_Exists(r)
    \/ \E r \in InFlight : Revoke_TTL(r)
    \/ \E r \in InFlight : Revoke_Set(r)
    \/ Tick(ApiInstants)

SpecApi == InitApi /\ [][NextApi]_vars

\* POST /token/revoke alone, with the clock observed around the expiry of
\* the bearer tokens as well
RevokeInstants == LedgerInstants

NextRevoke ==
    \/ \E tok \in Presentable : handleTokenRevoke(tok)
    \/ \E r \in InFlight : Revoke_Exists(r)
    \/ \E r \in InFlight : Revoke_TTL(r)
    \/ \E r \in InFlight : Revoke_Set(r)
    \/ Tick(RevokeInstants)

SpecRevoke == InitApi /\ [][NextRevoke]_vars

\* Two POST /token/revoke requests with athlete 1's token have arrived
\* together: each has verified the token and found it not revoked, and
\* neither has reached the store's RevokeJWTToken yet.
RaceRevoke == [NewRevoke(JtiNames[1], "Exists", TRUE) EXCEPT !.athlete = 1]

InitRace ==
    /\ now = 0
    /\ oauthState = [h \in HexTokens |-> Absent]
    /\ stravaToken = SaveToken(SaveToken([a \in Athletes |-> Absent],
                                         1, Pair(1, 1), TRUE).kv,
                               2, Pair(2, 1), TRUE).kv
    /\ jwtMeta = ApiRegister(ApiRegister([j \in JTIs |-> Absent], 1), 2)
    /\ jwtRevoked = [j \in JTIs |-> Absent]
    /\ cliSession = [c \in CliSessionIDs |-> Absent]
    /\ reqs = SetToBag({RaceRevoke}) (+) SetToBag({RaceRevoke})
    /\ ret = NoRet
    /\ randTokens = ApiStates
    /\ minted = [j \in JTIs |-> IF j = JtiNames[1] THEN ApiClaims(1)
                                ELSE IF j = JtiNames[2] THEN ApiClaims(2)
                                ELSE NoClaims]
    /\ hist = [InitHist EXCEPT !.issued = {<<h>> : h \in ApiStates},
                               !.okValues = {<<h>> : h \in ApiStates},
                               !.okConsumes = Cardinality(ApiStates),
                               !.exchanges = Cardinality(ApiStates),
                               !.saves = Cardinality(ApiStates),
                               !.mints = Cardinality(ApiStates),
                               !.handed = {JtiNames[1], JtiNames[2]},
                               !.registered = {JtiNames[1], JtiNames[2]}]

NextRace ==
    \/ \E tok \in Presentable : handleTokenRevoke(tok)
    \/ \E r \in InFlight : Revoke_Exists(r)
    \/ \E r \in InFlight : Revoke_TTL(r)
    \/ \E r \in InFlight : Revoke_Set(r)
    \/ Tick(RevokeInstants)

SpecRace == InitRace /\ [][NextRace]_vars

\* --------------------------------------------- the cipher, byte by byte
\* Encrypt and Decrypt on the bytes themselves: a hex secret is the sequence
\* of its digits (16 stands for a character that is no hex digit), a
\* plaintext the sequence of its bytes, a ciphertext the sequence of its
\* base64 characters (64 stands for the padding character).
KeySize == 32
NonceSize == 24
Overhead == 16
MaxPlain == 2

Rept(x, n) == [i \in 1..n |-> x]

\* hex.DecodeString
HexDecodeString(s) ==
    IF Len(s) % 2 # 0 \/ \E i \in 1..Len(s) : s[i] \notin 0..15
    THEN [ok |-> FALSE, bytes |-> <<>>]
    ELSE [ok |-> TRUE,
          bytes |-> [i \in 1..(Len(s) \div 2) |-> 16 * s[2 * i - 1] + s[2 * i]]]

\* SecretKeyFromHex: copy(secret[:], decoded[:32])
SecretKeyBytes(hexSecret) ==
    LET decoded == HexDecodeString(hexSecret) IN
    IF ~decoded.ok
    THEN [ok |-> FALSE, key |-> <<>>]
    ELSE IF Len(decoded.bytes) < KeySize
    THEN [ok |-> FALSE, key |-> <<>>]
    ELSE [ok |-> TRUE, key |-> SubSeq(decoded.bytes, 1, KeySize)]

\* base64.StdEncoding.EncodeToString: three bytes to four characters, the
\* last group padded
Base64Encode(bytes) ==
    LET n == Len(bytes)
        at(i) == IF i <= n THEN bytes[i] ELSE 0
        group(g) == 65536 * at(3 * g - 2) + 256 * at(3 * g - 1) + at(3 * g)
        char(g, k) ==
            IF k = 0 THEN group(g) \div 262144
            ELSE IF k = 1 THEN (group(g) \div 4096) % 64
            ELSE IF k = 2 THEN (IF 3 * g - 1 <= n THEN (group(g) \div 64) % 64 ELSE 64)
            ELSE (IF 3 * g <= n THEN group(g) % 64 ELSE 64)
    IN  [i \in 1..(4 * ((n + 2) \div 3)) |-> char((i + 3) \div 4, (i - 1) % 4)]

\* base64.StdEncoding.DecodeString
Base64Decode(chars) ==
    LET n == Len(chars)
        groups == n \div 4
        pads == IF n = 0 THEN 0
                ELSE IF chars[n] # 64 THEN 0
                ELSE IF chars[n - 1] # 64 THEN 1 ELSE 2
        val(i) == IF chars[i] = 64 THEN 0 ELSE chars[i]
        group(g) == 262144 * val(4 * g - 3) + 4096 * val(4 * g - 2)
                        + 64 * val(4 * g - 1) + val(4 * g)
        byte(g, k) ==
            IF k = 0 THEN group(g) \div 65536
            ELSE IF k = 1 THEN (group(g) \div 256) % 256
            ELSE group(g) % 256
    IN  IF \/ n % 4 # 0
           \/ \E i \in 1..n : chars[i] \notin 0..64
           \/ \E i \in 1..n : chars[i] = 64 /\ i < n - 1
           \/ (n > 0 /\ chars[n - 1] = 64 /\ chars[n] # 64)
        THEN [ok |-> FALSE, bytes |-> <<>>]
        ELSE [ok |-> TRUE,
              bytes |-> [i \in 1..(3 * groups - pads) |->
                            byte((i + 2) \div 3, (i - 1) % 3)]]

\* the key stream and the authenticator of secretbox, as sums of bytes
KeyStream(nonce, key, i) ==
    (key[1 + (i % KeySize)] + nonce[1 + (i % NonceSize)] + i) % 256

BoxTag(cipher, nonce, key) ==
    [j \in 1..Overhead |->
        (key[j] + key[j + Overhead] + nonce[j] + Len(cipher)
            + (IF cipher = <<>> THEN 0 ELSE cipher[1 + (j % Len(cipher))])) % 256]

\* secretbox.Seal(out, message, nonce, key): out, the authenticator, the
\* encrypted message
SecretboxSeal(out, message, nonce, key) ==
    LET cipher == [i \in 1..Len(message) |->
                      (message[i] + KeyStream(nonce, key, i)) % 256]
    IN  out \o BoxTag(cipher, nonce, key) \o cipher

SecretboxOpenUnchecked(box, nonce, key) ==
    IF Len(box) < Overhead THEN [ok |-> FALSE, bytes |-> <<>>]
    ELSE LET cipher == SubSeq(box, Overhead + 1, Len(box)) IN
         [ok |-> TRUE,
          bytes |-> [i \in 1..Len(cipher) |->
                        (cipher[i] + 256 - KeyStream(nonce, key, i)) % 256]]

\* secretbox.Open(nil, box, nonce, key)
SecretboxOpen(box, nonce, key) ==
    IF Len(box) < Overhead THEN [ok |-> FALSE, bytes |-> <<>>]
    ELSE LET cipher == SubSeq(box, Overhead + 1, Len(box)) IN
         IF SubSeq(box, 1, Overhead) # BoxTag(cipher, nonce, key)
         THEN [ok |-> FALSE, bytes |-> <<>>]
         ELSE [ok |-> TRUE,
               bytes |-> [i \in 1..Len(cipher) |->
                            (cipher[i] + 256 - KeyStream(nonce, key, i)) % 256]]

ErrDecodeSecret == "failed to decode secret"
ErrDecodeBase64 == "failed to decode base64"
ErrTooShort == "ciphertext too short"
ErrOpen == "decryption failed: invalid secret or corrupted data"

\* Encrypt(plaintext, hexSecret), with the nonce the random source gave
EncryptBytes(plaintext, hexSecret, nonce) ==
    LET secretBytes == SecretKeyBytes(hexSecret) IN
    IF ~secretBytes.ok THEN [err |-> ErrDecodeSecret, val |-> <<>>]
    ELSE [err |-> "",
          val |-> Base64Encode(SecretboxSeal(nonce, plaintext, nonce,
                                             secretBytes.key))]

TooShortForBox(encrypted) == Len(encrypted) <= NonceSize + Overhead

\* if len(encrypted) < 24
TooShort(encrypted) == Len(encrypted) < NonceSize

\* Decrypt(ciphertext, hexSecret)
DecryptBytes(ciphertext, hexSecret) ==
    LET encrypted == Base64Decode(ciphertext) IN
    IF ~encrypted.ok THEN [err |-> ErrDecodeBase64, val |-> <<>>]
    ELSE IF TooShort(encrypted.bytes) THEN [err |-> ErrTooShort, val |-> <<>>]
    ELSE LET nonce == SubSeq(encrypted.bytes, 1, NonceSize)
             secretBytes == SecretKeyBytes(hexSecret)
         IN  IF ~secretBytes.ok THEN [err |-> ErrDecodeSecret, val |-> <<>>]
             ELSE LET decrypted ==
                          SecretboxOpen(SubSeq(encrypted.bytes, NonceSize + 1,
                                               Len(encrypted.bytes)),
                                        nonce, secretBytes.key)
                  IN  IF ~decrypted.ok THEN [err |-> ErrOpen, val |-> <<>>]
                      ELSE [err |-> "", val |-> decrypted.bytes]

\* the secrets: 32 bytes, the same 32 bytes and one more (two of them),
\* another 32 bytes, those and one more, 31 bytes, an odd number of digits,
\* a character that is no digit, nothing
HexSecrets ==
    {Rept(1, 2 * KeySize), Rept(1, 2 * KeySize) \o <<15, 15>>,
     Rept(1, 2 * KeySize) \o <<14, 14>>,
     Rept(2, 2 * KeySize), Rept(2, 2 * KeySize) \o <<15, 15>>,
     Rept(1, 2 * KeySize - 2), Rept(1, 2 * KeySize + 1),
     Rept(1, 2 * KeySize - 1) \o <<16>>, <<>>}

PlainBytes == {0, 255}

Plaintexts == UNION {[1..n -> PlainBytes] : n \in 0..MaxPlain}

Nonces == {Rept(0, NonceSize), Rept(200, NonceSize)}

\* the lengths a ciphertext is cut to before it is handed to Decrypt
CutLens == {0, 3, 16, 32}

EncryptCall(plaintext, hexSecret, nonce) ==
    LET res == EncryptBytes(plaintext, hexSecret, nonce) IN
    /\ ret' = Ret("Encrypt", <<plaintext, hexSecret>>, 0, res.err, res.val)
    /\ UNCHANGED <<now, stores, reqs, randTokens, minted, hist>>

\* Decrypt of the ciphertext that Encrypt has just returned
DecryptCall(hexSecret) ==
    /\ ret.op = "Encrypt" /\ ret.err = ""
    /\ LET res == DecryptBytes(ret.val, hexSecret) IN
       ret' = Ret("Decrypt", <<ret.val, hexSecret>>, 0, res.err, res.val)
    /\ UNCHANGED <<now, stores, reqs, randTokens, minted, hist>>

\* Decrypt of a piece of it
DecryptCut(hexSecret, n) ==
    /\ ret.op = "Encrypt" /\ ret.err = ""
    /\ LET cut == SubSeq(ret.val, 1, n)
           res == DecryptBytes(cut, hexSecret)
       IN  ret' = Ret("Decrypt", <<cut, hexSecret>>, 0, res.err, res.val)
    /\ UNCHANGED <<now, stores, reqs, randTokens, minted, hist>>

NextCipher ==
    \/ \E p \in Plaintexts, s \in HexSecrets, n \in Nonces : EncryptCall(p, s, n)
    \/ \E s \in HexSecrets : DecryptCall(s)
    \/ \E s \in HexSecrets, n \in CutLens : DecryptCut(s, n)

\* ------------------------------------------- the Authorization header
\* A header is the sequence of its characters, with the bearer token, where
\* there is one, as its last element; no header is the empty sequence.
BearerPrefix == <<"B", "e", "a", "r", "e", "r", " ">>

ErrAuthRequired == "Authorization header required"
ErrAuthFormat == "Invalid authorization format"

ParseBearerLax(authHeader) ==
    IF Len(authHeader) = 0
    THEN [ok |-> FALSE, err |-> ErrAuthRequired, token |-> NoClaims]
    ELSE IF Len(authHeader) > Len(BearerPrefix)
    THEN [ok |-> TRUE, err |-> "", token |-> authHeader[Len(authHeader)]]
    ELSE [ok |-> FALSE, err |-> ErrAuthFormat, token |-> NoClaims]

\* if authHeader == "" ...; if len(authHeader) > 7 && authHeader[:7] ==
\* "Bearer " { bearerToken = authHeader[7:] } else ...
ParseBearer(authHeader) ==
    IF Len(authHeader) = 0
    THEN [ok |-> FALSE, err |-> ErrAuthRequired, token |-> NoClaims]
    ELSE IF /\ Len(authHeader) > Len(BearerPrefix)
            /\ SubSeq(authHeader, 1, Len(BearerPrefix)) = BearerPrefix
    THEN [ok |-> TRUE, err |-> "", token |-> authHeader[Len(authHeader)]]
    ELSE [ok |-> FALSE, err |-> ErrAuthFormat, token |-> NoClaims]

\* the headers a client sends with a token: none, the scheme alone, the
\* scheme cut short, the token under the scheme, under the scheme in lower
\* case and under another scheme
Headers(tok) ==
    {<<>>, BearerPrefix, SubSeq(BearerPrefix, 1, 4),
     BearerPrefix \o <<tok>>,
     <<"b", "e", "a", "r", "e", "r", " ">> \o <<tok>>,
     <<"B", "a", "s", "i", "c", " ", "x">> \o <<tok>>}

\* POST /token/verify, from the header on (part_009:127, 202)
VerifyRequest(authHeader) ==
    LET parsed == ParseBearer(authHeader) IN
    IF parsed.ok THEN handleTokenVerify(parsed.token)
    ELSE /\ ret' = RetJ("AuthenticateRequest", "", 401, parsed.err, FALSE)
         /\ UNCHANGED <<now, stores, reqs, randTokens, minted, hist>>

\* POST /token/revoke, from the header on (part_009:137)
RevokeRequest(authHeader) ==
    LET parsed == ParseBearer(authHeader) IN
    IF parsed.ok THEN handleTokenRevoke(parsed.token)
    ELSE /\ ret' = RetJ("handleTokenRevoke", "", 401, parsed.err, FALSE)
         /\ UNCHANGED <<now, stores, reqs, randTokens, minted, hist>>

\* Athletes 1 and 2 have logged in as in InitApi, and further logins have
\* been started: their state entries wait to be consumed.
InitInputs ==
    \E sid \in SessionIDs :
        /\ now = 0
        /\ oauthState = [h \in HexTokens |->
                           RedisSetEx([k \in HexTokens |-> Absent], h,
                                      IF sid # <<>> THEN sid ELSE FormatInt(Unix(0)),
                                      StateTTLSeconds, 0)[h]]
        /\ stravaToken = SaveToken(SaveToken([a \in Athletes |-> Absent],
                                             1, Pair(1, 1), TRUE).kv,
                                   2, Pair(2, 1), TRUE).kv
        /\ jwtMeta = ApiRegister(ApiRegister([j \in JTIs |-> Absent], 1), 2)
        /\ jwtRevoked = [j \in JTIs |-> Absent]
        /\ cliSession = [c \in CliSessionIDs |-> Absent]
        /\ reqs = EmptyBag
        /\ ret = NoRet
        /\ randTokens = HexTokens \cup ApiStates
        /\ minted = [j \in JTIs |-> IF j = JtiNames[1] THEN ApiClaims(1)
                                    ELSE IF j = JtiNames[2] THEN ApiClaims(2)
                                    ELSE NoClaims]
        /\ hist = [InitHist EXCEPT !.issued = {StateValue(h, sid) : h \in HexTokens}
                                              \cup {<<h>> : h \in ApiStates},
                                   !.okValues = {<<h>> : h \in ApiStates},
                                   !.okConsumes = Cardinality(ApiStates),
                                   !.exchanges = Cardinality(ApiStates),
                                   !.saves = Cardinality(ApiStates),
                                   !.mints = Cardinality(ApiStates),
                                   !.handed = {JtiNames[1], JtiNames[2]},
                                   !.registered = {JtiNames[1], JtiNames[2]}]

\* the callbacks, with a provider that refuses every code, and the requests
\* of the token API with their headers, one request after the other; no
\* time passes
NextInputs ==
    \/ \E c \in Codes, st \in StateInputs :
          reqs = EmptyBag /\ handleTokenCallback(c, st)
    \/ \E r \in InFlight : Callback_GetOAuthState(r)
    \/ \E r \in InFlight, p \in LoginPairs : Callback_exchangeCode(r, FALSE, 1, p)
    \/ \E tok \in Presentable : \E h \in Headers(tok) :
          reqs = EmptyBag /\ VerifyRequest(h)
    \/ \E tok \in Presentable : \E h \in Headers(tok) :
          reqs = EmptyBag /\ RevokeRequest(h)
    \/ \E r \in InFlight : Revoke_Exists(r)
    \/ \E r \in InFlight : Revoke_TTL(r)
    \/ \E r \in InFlight : Revoke_Set(r)

SpecInputs == InitInputs /\ [][NextInputs]_vars

SpecCipher == Init /\ [][NextCipher]_vars

\* ------------------------------------- the client's polling loop (sktk)
\* pollForToken, on the client's own clock in milliseconds since the call.
\* A request of the loop takes some time and ends in a network error (the
\* client's timeout of 10 s is one), in a body that does not decode, or in
\* a response with a status, a token and an expiry that parses or not.
MaxAttempts == 60
PollIntervalMs == 1500
ClientTimeoutMs == 10000
PollDeadlineMs == 90000

ErrPollParse == "failed to parse response"
ErrPollExpiry == "failed to parse expiration time"
ErrPollStatus == "unexpected response status"
ErrPollTimeout == "authentication timeout after 90 seconds"

PollStatuses == {200, 202, 500}
PollTokens == {"", "tok"}
PollDurations == {0, ClientTimeoutMs}

NetworkError == [kind |-> "error", status |-> 0, token |-> "", expiresOk |-> FALSE]

\* an expiry is read only next to a token, and neither from a body that
\* does not decode
PollResponses ==
    {NetworkError}
        \cup {[kind |-> "undecodable", status |-> st, token |-> "",
               expiresOk |-> FALSE] : st \in PollStatuses \ {500}}
        \cup {resp \in [kind : {"body"}, status : PollStatuses,
                        token : PollTokens, expiresOk : BOOLEAN] :
                resp.token # "" \/ ~resp.expiresOk}

NewPoll == [kind |-> "poll", pc |-> "Get", attempt |-> 0, elapsed |-> 0]

RetPoll(r, resp, returned, token, err) ==
    [NoRet EXCEPT !.op = "pollForToken", !.calls = r.attempt + 1,
                  !.at = r.elapsed, !.status = resp.status,
                  !.flag = returned, !.access = token, !.err = err]

\* pollForToken(sessionID): the call
pollForTokenCall ==
    /\ reqs = EmptyBag
    /\ Start(NewPoll)
    /\ ret' = NoRet
    /\ UNCHANGED <<now, stores, randTokens, minted, hist>>

PollTokenReadyAnyStatus(resp) == resp.token # ""

\* if resp.StatusCode == http.StatusOK && pollResp.Token != ""
PollTokenReady(resp) == resp.status = 200 /\ resp.token # ""

\* for attempt := 0; attempt < maxAttempts; attempt++: the loop is left
PollLoopEnds(attempt) == ~(attempt < MaxAttempts)

\* one turn of the loop: client.Get(pollURL), the response after d
\* milliseconds, and what the loop does with it, up to the next request or
\* the return
Poll_Get(r, resp, d) ==
    LET next == [r EXCEPT !.attempt = @ + 1,
                          !.elapsed = @ + d + PollIntervalMs]
        again == IF PollLoopEnds(next.attempt)
                 THEN /\ Finish(r)
                      /\ ret' = RetPoll(r, resp, TRUE, "", ErrPollTimeout)
                 ELSE /\ Step(r, next)
                      /\ ret' = RetPoll(r, resp, FALSE, "", "")
    IN  /\ r.kind = "poll" /\ r.pc = "Get"
        /\ IF resp.kind = "error" THEN again
           ELSE IF resp.kind = "undecodable"
           THEN /\ Finish(r)
                /\ ret' = RetPoll(r, resp, TRUE, "", ErrPollParse)
           ELSE IF PollTokenReady(resp)
           THEN /\ Finish(r)
                /\ ret' = IF resp.expiresOk
                           THEN RetPoll(r, resp, TRUE, resp.token, "")
                           ELSE RetPoll(r, resp, TRUE, "", ErrPollExpiry)
           ELSE IF resp.status = 202 THEN again
           ELSE /\ Finish(r)
                /\ ret' = RetPoll(r, resp, TRUE, "", ErrPollStatus)
        /\ UNCHANGED <<now, stores, randTokens, minted, hist>>

PollTurn ==
    \E r \in InFlight, resp \in PollResponses, d \in PollDurations : Poll_Get(r, resp, d)

NextPoll ==
    \/ pollForTokenCall
    \/ PollTurn

SpecPoll == Init /\ [][NextPoll]_vars

\* the loop runs on: a turn that can be taken is taken
SpecPollFair == Init /\ [][NextPoll]_vars /\ WF_vars(PollTurn)

\* ------------------------------------- the upstream token store on its own
\* Athlete 1 has logged in at time 0 and has an upstream record that expires
\* after one second; athlete 2 has never logged in.
InitStore ==
    /\ now = 0
    /\ oauthState = [h \in HexTokens |-> Absent]
    /\ stravaToken = SaveToken([a \in Athletes |-> Absent], 1, Pair(1, 1), TRUE).kv
    /\ jwtMeta = [j \in JTIs |-> Absent]
    /\ jwtRevoked = [j \in JTIs |-> Absent]
    /\ cliSession = [c \in CliSessionIDs |-> Absent]
    /\ reqs = EmptyBag
    /\ ret = NoRet
    /\ randTokens = {HexNames[MaxLogins + 1]}
    /\ minted = [j \in JTIs |-> NoClaims]
    /\ hist = [InitHist EXCEPT !.issued = {<<HexNames[MaxLogins + 1]>>},
                               !.okValues = {<<HexNames[MaxLogins + 1]>>},
                               !.okConsumes = 1, !.exchanges = 1, !.saves = 1]

StoreInstants == {0, Seconds(2), Seconds(4)}

NextStore ==
    \/ \E a \in Athletes : FetchTokenCall(a)
    \/ \E r \in InFlight : Fetch_HMGet(r)
    \/ \E r \in InFlight, ok \in BOOLEAN : Fetch_refresh(r, ok)
    \/ \E r \in InFlight, storeOk \in BOOLEAN : Fetch_SaveToken(r, storeOk)
    \/ Tick(StoreInstants)

SpecStore == InitStore /\ [][NextStore]_vars

\* --------------------------------------------- the CLI sessions on their own
\* the bearer tokens a completed login may stage
CliTokens == {GenerateJWT(a, Secret, Seconds(JWTTTLSeconds), JtiNames[a], 0) : a \in Athletes}

CliInstants == {0, Seconds(CLISessionTTLSeconds) - 1, Seconds(CLISessionTTLSeconds),
                Seconds(CLISessionTTLSeconds) + 1,
                2 * Seconds(CLISessionTTLSeconds) - 1, 2 * Seconds(CLISessionTTLSeconds)}

NextCli ==
    \/ \E c \in CliSessionIDs, t \in CliTokens : SaveCLISessionCall(c, t)
    \/ \E c \in CliSessionIDs : GetCLISessionCall(c)
    \/ Tick(CliInstants)

SpecCli == Init /\ [][NextCli]_vars

\* ------------------------------- the state value and its session ID
\* the session IDs a client may start a login with: none, plain ones, and
\* ones that hold a ':'
Correlators ==
    {<<>>, <<"s">>, <<"s", "t">>,
     <<"a", Colon, "b">>, <<Colon, "a">>, <<"a", Colon>>, <<Colon>>, <<"a", Colon, Colon, "b">>}

HasColon(c) == \E i \in 1..Len(c) : c[i] = Colon

NextCorrelator ==
    \/ \E c \in Correlators : SaveOAuthState(c)
    \/ \E st \in hist.issued \cup StateInputs : GetOAuthStateCall(st)
    \/ Tick(CsrfInstants)

SpecCorrelator == Init /\ [][NextCorrelator]_vars

\* states issued with and without a session ID, and callers that present a
\* state's random part followed by ':' and the time of a clock reading
GuessInputs ==
    {<<h, Colon>> \o FormatInt(Unix(t)) : h \in HexTokens, t \in CsrfInstants}

NextGuess ==
    \/ \E sid \in SessionIDs : SaveOAuthState(sid)
    \/ \E st \in hist.issued \cup GuessInputs : GetOAuthStateCall(st)
    \/ Tick(CsrfInstants)

SpecGuess == Init /\ [][NextGuess]_vars

\* ------------------------------------------- logins started at time 0
\* Every random token has been drawn at time 0 by a SaveOAuthState of one
\* session ID (or of none), and the callbacks come at any time after.
InitExpiry ==
    \E sid \in SessionIDs :
        /\ now = 0
        /\ oauthState = [h \in HexTokens |->
                           RedisSetEx([k \in HexTokens |-> Absent], h,
                                      IF sid # <<>> THEN sid ELSE FormatInt(Unix(0)),
                                      StateTTLSeconds, 0)[h]]
        /\ stravaToken = [a \in Athletes |-> Absent]
        /\ jwtMeta = [j \in JTIs |-> Absent]
        /\ jwtRevoked = [j \in JTIs |-> Absent]
        /\ cliSession = [c \in CliSessionIDs |-> Absent]
        /\ reqs = EmptyBag
        /\ ret = NoRet
        /\ randTokens = HexTokens
        /\ minted = [j \in JTIs |-> NoClaims]
        /\ hist = [InitHist EXCEPT !.issued = {StateValue(h, sid) : h \in HexTokens}]

ExpiryInstants == {0, Seconds(StateTTLSeconds), Seconds(StateTTLSeconds) + 1}

NextExpiry ==
    \/ \E c \in Codes, st \in hist.issued \cup {<<>>} : handleTokenCallback(c, st)
    \/ \E r \in InFlight : Callback_GetOAuthState(r)
    \/ \E r \in InFlight, ok \in BOOLEAN, p \in LoginPairs : Callback_exchangeCode(r, ok, 1, p)
    \/ \E r \in InFlight, ok \in BOOLEAN : Callback_SaveToken(r, ok)
    \/ \E r \in InFlight : Callback_GenerateJWT(r)
    \/ \E r \in InFlight : Callback_SaveJWTToken(r)
    \/ \E r \in InFlight : Callback_Expire(r)
    \/ Tick(ExpiryInstants)

SpecExpiry == InitExpiry /\ [][NextExpiry]_vars

\* --------------------------------------- the bearer token codec on its own
\* durations below one second and of one second, and one in the past
CodecDurations == {1, Seconds(1), 0 - Seconds(1)}

CodecInstants == {0, 2, Seconds(1) + 2}

NextCodec ==
    \/ \E a \in Athletes, k \in ValidSecrets, d \in CodecDurations : GenerateJWTCall(a, k, d)
    \/ \E j \in JTIs, k \in ValidSecrets : minted[j].made /\ VerifyJWTCall(minted[j], k)
    \/ \E j \in JTIs : minted[j].made /\ handleTokenVerify(minted[j])
    \/ Tick(CodecInstants)

SpecCodec == Init /\ [][NextCodec]_vars

\* ------------------------------------------------------------- claims
\* C1: a state value that one consume has returned successfully is refused
\* by every later consume of the same value, with the "invalid or expired"
\* error.
C1_SingleUse ==
    [][(ret'.op = "GetOAuthState" /\ ret'.arg \in hist.okValues)
          => ret'.err = ErrInvalidState]_vars

\* a second consume of a consumed value has been refused
C1_Witness ==
    /\ ret.op = "GetOAuthState"
    /\ ret.arg \in hist.okValues
    /\ ret.err = ErrInvalidState

\* C2: of the requests that consume one issued state value, whatever the
\* interleaving, the one whose GETDEL finds the entry succeeds, the entry is
\* gone in the same step, and no request succeeds after another has.
C2_ExactlyOneWinner ==
    [][(ret'.op = "GetOAuthState" /\ ret'.arg \in hist.issued)
          => /\ (ret'.err = "") <=> oauthState[ret'.arg[1]].set
             /\ ~oauthState'[ret'.arg[1]].set
             /\ (ret'.err = "") => ret'.arg \notin hist.okValues]_vars

\* two callbacks with the same issued state: one has consumed it and is
\* still in flight, the other has just been refused
C2_Witness ==
    /\ ret.op = "GetOAuthState" /\ ret.status = 403
    /\ ret.arg \in hist.issued
    /\ \E r \in InFlight :
        /\ r.kind = "callback"
        /\ r.consumed
        /\ r.state = ret.arg

\* C3: a callback exchanges the code, saves the pair and mints a bearer
\* token only after its own consume has succeeded; a refused callback
\* ends with 403 and has done none of the three.
C3_OnlyAfterConsume ==
    /\ \A r \in InFlight :
        (r.kind = "callback" /\ r.pc # "GetOAuthState") => r.consumed
    /\ \A r \in InFlight :
        (r.kind = "callback" /\ r.pc = "GetOAuthState") => r.did = {}
    /\ hist.exchanges <= hist.okConsumes
    /\ hist.saves <= hist.okConsumes
    /\ hist.mints <= hist.okConsumes
    /\ (ret.op = "GetOAuthState" /\ ret.err # "") => ret.status = 403

\* one callback has been refused after another has gone through all three
C3_Witness ==
    /\ hist.exchanges > 0 /\ hist.saves > 0 /\ hist.mints > 0
    /\ ret.op = "GetOAuthState" /\ ret.status = 403

\* C4: handleStravaToken reads or refreshes an upstream token only in a
\* request whose bearer token had a valid signature, was not expired and was
\* not revoked when it was checked, and it reads the record of the subject
\* named in that token; a request it rejects touches neither store nor
\* provider.
C4_OnlyAuthenticated ==
    [][ /\ \A r \in InFlight' :
            (r.kind = "fetch" /\ r.handler) =>
                /\ r.auth.sig /\ r.auth.live /\ r.auth.unrevoked
                /\ r.athlete = r.auth.sub
                /\ r.athlete = minted[r.jti].sub
        /\ (ret'.op = "fetchTokenInfo" /\ ret'.jti # "")
            => /\ ret'.athlete = minted[ret'.jti].sub
               /\ \A a \in Athletes \ {ret'.athlete} : stravaToken'[a] = stravaToken[a]
        /\ (ret'.op = "handleStravaToken")
            => /\ ret'.status = 401
               /\ reqs' = reqs /\ stores' = stores /\ hist' = hist ]_vars

C4_Witness ==
    /\ ret.op = "fetchTokenInfo" /\ ret.jti # "" /\ ret.err = ""
    /\ ret.athlete = 2 /\ ret.status = 200
    /\ IsJWTRevoked(jwtRevoked, JtiNames[1])
    /\ stravaToken[1].set

\* C5: once revoke(j) has succeeded, every later authentication of the bearer
\* token issued with j fails, and the marker of j is there for as long as
\* the token has not expired.
C5_RevokedStaysRejected ==
    /\ (ret.op = "AuthenticateToken" /\ ret.flag /\ ret.jti \in hist.revokedOk)
            => ret.err # ""
    /\ \A j \in hist.revokedOk :
            now < Seconds(minted[j].exp) => IsJWTRevoked(jwtRevoked, j)

\* C6: every revocation marker has an expiry, and one no later than the
\* expiry of the bearer token issued with its identifier.
C6_MarkerBounded ==
    \A j \in JTIs :
        jwtRevoked[j].set =>
            /\ jwtRevoked[j].volatile
            /\ jwtRevoked[j].exp <= Seconds(minted[j].exp)

\* C7: after register(j) with an expiry in the future, a revoke(j) that
\* succeeds leaves isRevoked(j) true, and it stays true while no time passes;
\* isRevoked of an identifier that was never registered returns false.
C7_RevokeThenIsRevoked ==
    [][ /\ (ret'.op = "RevokeJWTToken" /\ ret'.err = "")
            => IsJWTRevoked(jwtRevoked', ret'.jti)
        /\ \A j \in JTIs :
            (now' = now /\ IsJWTRevoked(jwtRevoked, j)) => IsJWTRevoked(jwtRevoked', j)
        /\ (ret'.op = "IsJWTRevoked" /\ ret'.jti \in hist.revokedOk /\ now' = now
                /\ IsJWTRevoked(jwtRevoked, ret'.jti)) => ret'.flag
        /\ (ret'.op = "IsJWTRevoked" /\ ret'.jti \notin hist.registered)
            => ~ret'.flag ]_vars

C7_Witness ==
    /\ ret.op = "IsJWTRevoked" /\ ret.flag
    /\ ret.jti \in hist.registered /\ ret.jti \in hist.revokedOk

\* C8: a revoke of an identifier that has no live registration when revoke
\* looks for it (never registered, or registration expired) returns NotFound,
\* goes no further and writes no marker.
C8_RevokeNotFound ==
    [][ \A j \in JTIs :
          RedisExists(jwtMeta, j) = 0 =>
            /\ CopiesIn(NewRevoke(j, "TTL", FALSE), reqs')
                    <= CopiesIn(NewRevoke(j, "TTL", FALSE), reqs)
            /\ (ret'.op = "RevokeJWTToken" /\ ret'.jti = j /\ reqs' = reqs)
                    => /\ ret'.err = ErrNotFound
                       /\ jwtRevoked' = jwtRevoked
                       /\ IsJWTRevoked(jwtRevoked', j) = IsJWTRevoked(jwtRevoked, j) ]_vars

C8_Witness ==
    /\ ret.op = "RevokeJWTToken" /\ ret.err = ErrNotFound
    /\ ret.jti \in hist.registered
    /\ ~IsJWTRevoked(jwtRevoked, ret.jti)

\* C9: a revoke of j changes the marker of no other identifier and the
\* registration of none, and only a revoke of j changes the marker of j
\* (short of its expiry).
C9_RevokeFrame ==
    [][ /\ ret'.op = "RevokeJWTToken" =>
            \A j2 \in JTIs \ {ret'.jti} :
                /\ jwtRevoked'[j2] = jwtRevoked[j2]
                /\ IsJWTRevoked(jwtRevoked', j2) = IsJWTRevoked(jwtRevoked, j2)
                /\ jwtMeta'[j2] = jwtMeta[j2]
        /\ now' = now =>
            \A j \in JTIs :
                jwtRevoked'[j] # jwtRevoked[j]
                    => ret'.op = "RevokeJWTToken" /\ ret'.jti = j ]_vars

C9_Witness ==
    /\ ret.op = "RevokeJWTToken" /\ ret.err = ""
    /\ \E j2 \in JTIs \ {ret.jti} :
        /\ minted[j2].sub = minted[ret.jti].sub
        /\ RedisExists(jwtMeta, j2) = 1
        /\ ~IsJWTRevoked(jwtRevoked, j2)

C11_FreshGet ==
    [][\A r \in InFlight :
          (/\ r.kind = "fetch" /\ r.pc = "HMGet"
           /\ CopiesIn(r, reqs') < CopiesIn(r, reqs)
           /\ stravaToken[r.athlete].set
           /\ now <= Seconds(stravaToken[r.athlete].val.expires_at))
          => /\ ret'.op = "fetchTokenInfo" /\ ret'.err = ""
             /\ ret'.athlete = r.athlete
             /\ ret'.calls = 0
             /\ hist'.refreshes = hist.refreshes
             /\ Decrypt(stravaToken[r.athlete].val.access_token, Secret).ok
             /\ ret'.access = Decrypt(stravaToken[r.athlete].val.access_token, Secret).pt
             /\ ret'.expires_at = stravaToken[r.athlete].val.expires_at
             /\ stravaToken' = stravaToken ]_vars

\* a get has returned the stored token of a record that is not expired
C11_Witness ==
    /\ ret.op = "fetchTokenInfo" /\ ret.err = "" /\ ~ret.flag /\ ret.calls = 0
    /\ stravaToken[ret.athlete].set
    /\ now <= Seconds(stravaToken[ret.athlete].val.expires_at)
    /\ ret.access = Decrypt(stravaToken[ret.athlete].val.access_token, Secret).pt
    /\ ret.access # ""

\* C12: a get that reads no stored record for its subject ends at once,
\* without a provider call, with an error that is not one of the decryption
\* failures.
C12_SubjectNotFound ==
    [][\A r \in InFlight :
          (/\ r.kind = "fetch" /\ r.pc = "HMGet"
           /\ CopiesIn(r, reqs') < CopiesIn(r, reqs)
           /\ ~stravaToken[r.athlete].set)
          => /\ ret'.op = "fetchTokenInfo" /\ ret'.athlete = r.athlete
             /\ ret'.calls = 0
             /\ ret'.err # ""
             /\ ret'.err \notin {ErrDecryptAccess, ErrDecryptRefresh} ]_vars

\* C13: when the provider does not answer a refresh with a new pair, the
\* get ends there with the refresh error, having called the provider
\* exactly once, and the persisted records are as they were.
C13_RefreshFailed ==
    [][\A r \in InFlight :
          (/\ r.kind = "fetch" /\ r.pc = "refresh"
           /\ CopiesIn(r, reqs') < CopiesIn(r, reqs)
           /\ hist'.refreshes = hist.refreshes)
          => /\ ret'.op = "fetchTokenInfo" /\ ret'.athlete = r.athlete
             /\ ret'.err = ErrRefresh
             /\ ret'.calls = 1
             /\ BagCardinality(reqs') = BagCardinality(reqs) - 1
             /\ stravaToken' = stravaToken ]_vars

\* a get on an expired record has failed at the provider, and the expired
\* record is still the persisted one
C13_Witness ==
    /\ ret.op = "fetchTokenInfo" /\ ret.err = ErrRefresh /\ ret.calls = 1
    /\ stravaToken[ret.athlete].set
    /\ stravaToken[ret.athlete].val.expires_at < Unix(now)

\* C14: in every reachable state, the access_token and refresh_token
\* fields of every persisted record are boxes sealed under the deployment
\* secret, which open to non-empty provider tokens; no record holds a
\* provider token unsealed.
C14_NeverPlaintext ==
    \A a \in Athletes :
        stravaToken[a].set =>
            LET rec == stravaToken[a].val IN
            /\ rec.access_token.sealed /\ rec.access_token.key = Secret
            /\ rec.refresh_token.sealed /\ rec.refresh_token.key = Secret
            /\ Decrypt(rec.access_token, Secret).ok
            /\ Decrypt(rec.refresh_token, Secret).ok
            /\ ~Decrypt(rec.access_token, WrongSecret).ok
            /\ ~Decrypt(rec.refresh_token, WrongSecret).ok

\* the persisted record of a subject is one a refresh has written, over
\* the one its login wrote
C14_Witness ==
    /\ hist.saves > 0 /\ hist.refreshes > 0
    /\ \E a \in Athletes :
        /\ stravaToken[a].set
        /\ Decrypt(stravaToken[a].val.access_token, Secret).pt
              = AccessNames[Cardinality(Athletes) + 1]
        /\ Decrypt(stravaToken[a].val.refresh_token, Secret).pt
              = RefreshNames[Cardinality(Athletes) + 1]

\* C15: gets of one subject may overlap and each call the provider; every
\* change of a persisted record is the work of one save, which replaces
\* the access token, the refresh token and the expiry together by those of
\* the pair that save was given, so that the record after any number of
\* saves is whole and is the last writer's.
C15_LastWriterWins ==
    [][\A a \in Athletes :
          /\ stravaToken'[a] # stravaToken[a] =>
                \E r \in InFlight :
                    /\ r.kind = "fetch" /\ r.pc = "SaveToken" /\ r.athlete = a
                    /\ CopiesIn(r, reqs') < CopiesIn(r, reqs)
                    /\ stravaToken'[a].set
                    /\ Decrypt(stravaToken'[a].val.access_token, Secret).pt = r.newToken.access
                    /\ Decrypt(stravaToken'[a].val.refresh_token, Secret).pt = r.newToken.refresh
                    /\ stravaToken'[a].val.expires_at = r.newToken.expires_at
          /\ stravaToken'[a].set =>
                \E n \in 1..Len(AccessNames) :
                    /\ Decrypt(stravaToken'[a].val.access_token, Secret).pt = AccessNames[n]
                    /\ Decrypt(stravaToken'[a].val.refresh_token, Secret).pt = RefreshNames[n] ]_vars

\* two gets of the same expired record have both called the provider and
\* have both finished; the one that was answered first saved last, and the
\* persisted record is its triple
C15_Witness ==
    /\ reqs = EmptyBag
    /\ hist.refreshes = 2
    /\ ret.op = "fetchTokenInfo" /\ ret.flag /\ ret.saved /\ ret.calls = 1
    /\ ret.access = AccessNames[Cardinality(Athletes) + 1]
    /\ Decrypt(stravaToken[ret.athlete].val.access_token, Secret).pt = ret.access
    /\ Decrypt(stravaToken[ret.athlete].val.refresh_token, Secret).pt
          = RefreshNames[Cardinality(Athletes) + 1]
    /\ stravaToken[ret.athlete].val.expires_at = ret.expires_at

\* C16: a retrieve of a session that has been staged returns the token of
\* its last stage when no more than 60 seconds have passed since that
\* stage, and the "not found or expired" (pending) error when more have.
C16_StageThenRetrieve ==
    [][\A c \in CliSessionIDs :
          (ret'.op = "GetCLISession" /\ ret'.arg = c /\ hist.staged[c].set)
          => IF now <= hist.staged[c].at + Seconds(60)
             THEN ret'.err = "" /\ ret'.token = hist.staged[c].token
             ELSE ret'.err = ErrSessionNotFound /\ ret'.token = NoClaims ]_vars

\* a session staged and retrieved within its window is polled again after
\* the window and is pending
C16_Witness ==
    /\ ret.op = "GetCLISession" /\ ret.err = ErrSessionNotFound
    /\ hist.staged[ret.arg].set
    /\ hist.retrieved[ret.arg] > 0
    /\ now > hist.staged[ret.arg].at + Seconds(60)

\* C17: no retrieve changes the stored sessions, neither their values nor
\* their expiry times; a retrieve of a session that has already been
\* retrieved since its stage, made within the 60 seconds, returns the
\* staged token again.
C17_PlainRead ==
    [][ret'.op = "GetCLISession" =>
          /\ \A c \in CliSessionIDs :
                /\ cliSession'[c].set = cliSession[c].set
                /\ cliSession'[c].exp = cliSession[c].exp
                /\ cliSession[c].set => cliSession'[c].val = cliSession[c].val
          /\ (/\ hist.retrieved[ret'.arg] > 0
              /\ now <= hist.staged[ret'.arg].at + Seconds(60))
             => /\ ret'.err = ""
                /\ ret'.token = hist.staged[ret'.arg].token ]_vars

\* a session has been retrieved twice since its stage, the second time at
\* a later instant than the stage, and is still stored with the expiry the
\* stage gave it
C17_Witness ==
    /\ ret.op = "GetCLISession" /\ ret.err = ""
    /\ hist.retrieved[ret.arg] >= 2
    /\ now > hist.staged[ret.arg].at
    /\ ret.token = hist.staged[ret.arg].token
    /\ cliSession[ret.arg].set
    /\ cliSession[ret.arg].exp = hist.staged[ret.arg].at + Seconds(CLISessionTTLSeconds)

\* C18: a retrieve of a session that has already been retrieved with
\* success since its stage returns the "not found or expired" (pending)
\* error.
C18_DestroyedOnRetrieval ==
    [][(ret'.op = "GetCLISession" /\ hist.retrieved[ret'.arg] > 0)
          => ret'.err = ErrSessionNotFound]_vars

\* C18, amended: a session that has been retrieved with success since its
\* stage is stored, with the staged token, exactly as long as no more than
\* 60 seconds have passed since the stage; its timeout alone destroys it.
C18_DestroyedOnlyByTimeout ==
    \A c \in CliSessionIDs :
        hist.retrieved[c] > 0 =>
            /\ cliSession[c].set <=> now <= hist.staged[c].at + Seconds(60)
            /\ cliSession[c].set => cliSession[c].val = hist.staged[c].token

\* a session retrieved with success is still stored at a later instant
\* within its window, and another is gone after its window
C18_Witness ==
    \E c, d \in CliSessionIDs :
        /\ hist.retrieved[c] > 0 /\ cliSession[c].set
        /\ now > hist.staged[c].at
        /\ hist.retrieved[d] > 0 /\ ~cliSession[d].set

\* C19: the consume of a state value that was issued for a session ID
\* without ':' (or for none), made while its entry is stored, succeeds and
\* returns that session ID (the empty one when none was given).
C19_RoundTrip ==
    [][\A h \in HexTokens, c \in Correlators :
          (/\ ~HasColon(c)
           /\ ret'.op = "GetOAuthState" /\ ret'.arg = StateValue(h, c)
           /\ StateValue(h, c) \in hist.issued
           /\ oauthState[h].set)
          => ret'.err = "" /\ ret'.val = c ]_vars

\* an issued state value with a session ID of two symbols has been consumed
C19_Witness ==
    /\ ret.op = "GetOAuthState" /\ ret.err = ""
    /\ ret.arg \in hist.issued
    /\ Len(ret.val) = 2 /\ ~HasColon(ret.val)
    /\ Len(ret.arg) = Len(ret.val) + 2

\* C20: the consume of a state value that was issued for a session ID
\* holding a ':', made while its entry is stored, does not succeed with
\* that session ID.
C20_ColonBreaks ==
    [][\A h \in HexTokens, c \in Correlators :
          (/\ HasColon(c)
           /\ ret'.op = "GetOAuthState" /\ ret'.arg = StateValue(h, c)
           /\ StateValue(h, c) \in hist.issued
           /\ oauthState[h].set)
          => ~(ret'.err = "" /\ ret'.val = c) ]_vars

\* C20, amended: the state value is split at its first ':' and the random
\* token holds none, so the consume of a state value that was issued for a
\* session ID holding a ':', made while its entry is stored, succeeds and
\* returns that session ID whole.
C20_ColonRoundTrip ==
    [][\A h \in HexTokens, c \in Correlators :
          (/\ HasColon(c)
           /\ ret'.op = "GetOAuthState" /\ ret'.arg = StateValue(h, c)
           /\ StateValue(h, c) \in hist.issued
           /\ oauthState[h].set)
          => ret'.err = "" /\ ret'.val = c ]_vars

\* an issued state value whose session ID holds a ':' between two symbols
\* has been consumed
C20_Witness ==
    /\ ret.op = "GetOAuthState" /\ ret.err = ""
    /\ ret.arg \in hist.issued
    /\ Len(ret.val) = 3 /\ ret.val[2] = Colon
    /\ ret.arg = <<ret.arg[1], Colon>> \o ret.val

\* C21: the consume of a value made of the random part of a stored state
\* that was issued for a session ID c, followed by nothing or by ':' and a
\* session ID other than c, fails with the mismatch error and returns no
\* session ID.
C21_CorrelatorMismatch ==
    [][\A h \in HexTokens, c \in Correlators \ {<<>>} :
          (/\ ret'.op = "GetOAuthState"
           /\ StateValue(h, c) \in hist.issued
           /\ oauthState[h].set
           /\ Len(ret'.arg) >= 1 /\ ret'.arg[1] = h
           /\ Len(ret'.arg) >= 2 => ret'.arg[2] = Colon
           /\ ret'.arg # StateValue(h, c))
          => ret'.err = ErrMismatch /\ ret'.val = <<>> ]_vars

\* C22: a callback that presents, more than 10 minutes after its issuance,
\* a state value that was issued is refused there with the "invalid or
\* expired" error (403) and ends: its entry is gone, and no code exchange,
\* save, mint or registration is made by that step or left to that
\* request.
C22_ExpiredStateUnusable ==
    [][(/\ now > Seconds(600)
        /\ ret'.op = "GetOAuthState"
        /\ ret'.arg \in hist.issued)
       => /\ ret'.err = ErrInvalidState /\ ret'.status = 403
          /\ ~oauthState'[ret'.arg[1]].set
          /\ BagCardinality(reqs') = BagCardinality(reqs) - 1
          /\ \A r \in BagToSet(reqs') : r \in InFlight
          /\ hist' = hist ]_vars

\* the callback of a login whose state was never consumed has been refused
\* after the 10 minutes, and nothing was exchanged, saved or minted
C22_Witness ==
    /\ ret.op = "GetOAuthState" /\ ret.err = ErrInvalidState /\ ret.status = 403
    /\ ret.arg \in hist.issued
    /\ now > Seconds(600)
    /\ hist.okConsumes = 0 /\ hist.exchanges = 0 /\ hist.mints = 0

\* C23: when the code exchange of a callback fails, the callback ends with
\* that one attempt; its state value has been consumed and its entry is
\* gone, no upstream pair is saved and no bearer token is minted or
\* registered; and every callback that presents a consumed state value
\* again is refused (403) before any exchange.
C23_ExchangeSingleAttempt ==
    [][ /\ \A r \in InFlight :
              (/\ r.kind = "callback" /\ r.pc = "exchangeCode"
               /\ CopiesIn(r, reqs') < CopiesIn(r, reqs)
               /\ ret'.status = 500)
              => /\ BagCardinality(reqs') = BagCardinality(reqs) - 1
                 /\ hist'.exchanges = hist.exchanges + 1
                 /\ r.state \in hist.okValues
                 /\ ~oauthState'[r.state[1]].set
                 /\ stravaToken' = stravaToken
                 /\ jwtMeta' = jwtMeta
                 /\ minted' = minted
                 /\ hist'.saves = hist.saves /\ hist'.mints = hist.mints
                 /\ hist'.registered = hist.registered
        /\ (ret'.op = "GetOAuthState" /\ ret'.arg \in hist.okValues)
              => /\ ret'.err = ErrInvalidState /\ ret'.status = 403
                 /\ hist'.exchanges = hist.exchanges ]_vars

\* the exchange of a callback has failed: its state is consumed, and
\* nothing is saved, minted or registered
C23_Witness ==
    /\ ret.op = "handleTokenCallback" /\ ret.status = 500
    /\ ret.err = "exchange failed"
    /\ ret.arg \in hist.okValues
    /\ ~oauthState[ret.arg[1]].set
    /\ hist.exchanges = 1 /\ hist.saves = 0 /\ hist.mints = 0
    /\ hist.registered = {}
    /\ \A a \in Athletes : ~stravaToken[a].set

\* C24: the verification, under the secret it was issued with and at the
\* instant of its issuance, of a token that GenerateJWT made for a duration
\* above zero succeeds and yields the subject and the identifier of the
\* issuance.
C24_IssueThenVerify ==
    [][\A j \in JTIs :
          (/\ ret'.op = "VerifyJWT"
           /\ minted[j].made
           /\ ret'.arg = <<minted[j].key, j>>
           /\ hist.mintedAt[j] = now
           /\ hist.mintedFor[j] > 0)
          => /\ ret'.err = ""
             /\ ret'.athlete = minted[j].sub
             /\ ret'.jti = j ]_vars

\* C25: the verification of an issued token under a secret other than the
\* one it was issued with fails and yields no claims.
C25_WrongSecretFails ==
    [][\A j \in JTIs, k \in ValidSecrets :
          (/\ ret'.op = "VerifyJWT"
           /\ minted[j].made
           /\ ret'.arg = <<k, j>>
           /\ k # minted[j].key)
          => /\ ret'.err # "" /\ ~ret'.flag
             /\ ret'.jti = "" /\ ret'.token = NoClaims ]_vars

\* a token that is within its lifetime, and that its own secret verifies,
\* has been refused under another secret
C25_Witness ==
    /\ ret.op = "VerifyJWT" /\ ret.err # ""
    /\ \E j \in JTIs :
        /\ minted[j].made
        /\ ret.arg[2] = j /\ ret.arg[1] # minted[j].key
        /\ VerifyJWT(minted[j], minted[j].key, now)

\* C26: the identifier GenerateJWT returns is the one its token carries
\* and is not the identifier of any token issued before, whatever the
\* subject and the time of the two issuances.
C26_DistinctJTI ==
    [][ret'.op = "GenerateJWT" =>
          /\ ret'.token.jti = ret'.jti
          /\ ~minted[ret'.jti].made
          /\ \A j \in JTIs : minted[j].made => minted'[j] = minted[j]
          /\ \A j \in JTIs : minted'[j].made => minted'[j].jti = j ]_vars

\* two tokens issued for the same subject at the same instant, with the
\* same secret and duration, differ only in their identifiers
C26_Witness ==
    \E j, j2 \in JTIs :
        /\ j # j2 /\ minted[j].made /\ minted[j2].made
        /\ hist.mintedAt[j] = hist.mintedAt[j2]
        /\ minted[j2] = [minted[j] EXCEPT !.jti = j2]

\* C27: a token signed with the deployment secret whose expiry lies one
\* second or more in the past, presented to POST /token/verify, is
\* answered 401 with the reason of an expired token.
C27_ExpiredReason ==
    [][\A j \in JTIs :
          (/\ ret'.op = "AuthenticateToken" /\ ret'.jti = j
           /\ minted[j].made /\ minted[j].key = Secret
           /\ Seconds(minted[j].exp) + Seconds(1) <= now)
          => ret'.status = 401 /\ ret'.err = ErrExpired ]_vars

\* C28: every 401 of POST /token/verify carries the reason of its own kind
\* of rejection: a correctly signed, unexpired, revoked token gets the
\* revoked reason, a correctly signed expired token the expired reason, and
\* a token that is not correctly signed the invalid reason; the three
\* reasons differ, so the reason tells the kinds apart.
C28_ReasonsDistinct ==
    [][(ret'.op = "AuthenticateToken" /\ ret'.status = 401 /\ minted[ret'.jti].made)
          => LET signed == ret'.flag
                 expired == now >= Seconds(minted[ret'.jti].exp)
                 revoked == jwtRevoked[ret'.jti].set
             IN  /\ Cardinality({ErrRevoked, ErrExpired, ErrInvalidToken}) = 3
                 /\ (signed /\ ~expired /\ revoked) => ret'.err = ErrRevoked
                 /\ (signed /\ expired) => ret'.err = ErrExpired
                 /\ ~signed => ret'.err = ErrInvalidToken ]_vars

\* C29: POST /token/revoke with a token that is not correctly signed answers
\* 401; with a correctly signed, unexpired token that an earlier revoke has
\* already revoked it answers 400 and writes no marker; and a request that
\* was let through for a token still unexpired is answered 200 with
\* revoked:true, the token's jti and its athlete id.
C29_RevokeResponses ==
    [][ /\ \A tok \in Presentable :
              handleTokenRevoke(tok) =>
                  /\ tok.key # Secret => ret'.status = 401
                  /\ (tok.key = Secret /\ now < Seconds(tok.exp)
                          /\ tok.jti \in hist.revokedOk)
                        => /\ ret'.status = 400
                           /\ jwtRevoked' = jwtRevoked
        /\ \A r \in InFlight :
              (/\ r.kind = "revoke" /\ r.handler
               /\ Revoke_Exists(r) \/ Revoke_Set(r)
               /\ ret'.status # 0
               /\ now < Seconds(minted[r.jti].exp))
                 => /\ ret'.status = 200
                    /\ ret'.flag
                    /\ ret'.jti = r.jti
                    /\ ret'.athlete = minted[r.jti].sub ]_vars

\* C30: for every hex secret that decodes to at least 32 bytes and every
\* plaintext, the empty one included, Encrypt succeeds, and Decrypt of what
\* it returned, under the same secret, succeeds and returns the plaintext.
C30_EncryptDecrypt ==
    [][ /\ (/\ ret'.op = "Encrypt"
            /\ HexDecodeString(ret'.arg[2]).ok
            /\ Len(HexDecodeString(ret'.arg[2]).bytes) >= KeySize)
              => /\ ret'.err = ""
                 /\ ret'.val # <<>>
        /\ (/\ ret.op = "Encrypt" /\ ret.err = ""
            /\ ret'.op = "Decrypt"
            /\ ret'.arg[1] = ret.val
            /\ ret'.arg[2] = ret.arg[2])
              => /\ ret'.err = ""
                 /\ ret'.val = ret.arg[1] ]_vars

\* an empty plaintext has come back from Decrypt under a secret longer than
\* 32 bytes, from a ciphertext that is the nonce and the authenticator only
C30_Witness ==
    /\ ret.op = "Decrypt" /\ ret.err = ""
    /\ ret.val = <<>>
    /\ Len(HexDecodeString(ret.arg[2]).bytes) > KeySize
    /\ DecryptBytes(ret.arg[1], ret.arg[2]).val = <<>>
    /\ Len(Base64Decode(ret.arg[1]).bytes) = NonceSize + Overhead

\* C31: Decrypt of what Encrypt returned, under a secret that differs from
\* the one Encrypt was given, fails, also when both secrets are longer than
\* 32 bytes.
C31_OtherSecretFails ==
    [][ (/\ ret.op = "Encrypt" /\ ret.err = ""
         /\ ret'.op = "Decrypt"
         /\ ret'.arg[1] = ret.val
         /\ ret'.arg[2] # ret.arg[2])
           => ret'.err # "" ]_vars

\* C31, amended: Decrypt of what Encrypt returned fails under every secret
\* whose first 32 decoded bytes differ from those of the secret Encrypt was
\* given, and under every secret that does not decode to 32 bytes.
C31_OtherKeyFails ==
    [][ (/\ ret.op = "Encrypt" /\ ret.err = ""
         /\ ret'.op = "Decrypt"
         /\ ret'.arg[1] = ret.val
         /\ SecretKeyBytes(ret'.arg[2]).key # SecretKeyBytes(ret.arg[2]).key)
           => /\ ret'.err # ""
              /\ ret'.val = <<>> ]_vars

\* a whole ciphertext sealed under one secret longer than 32 bytes has been
\* refused under another secret longer than 32 bytes
C31_Witness ==
    /\ ret.op = "Decrypt" /\ ret.err = ErrOpen
    /\ ret.arg[2] = Rept(2, 2 * KeySize) \o <<15, 15>>
    /\ DecryptBytes(ret.arg[1], Rept(1, 2 * KeySize) \o <<15, 15>>).err = ""

\* C32: every callback that the state check refuses is answered with the
\* same status and the same message, whether the store found no entry (the
\* state never existed, was consumed or has expired) or found one with
\* another correlator.
C32_GenericRejection ==
    (ret.op = "GetOAuthState" /\ ret.err \in {ErrInvalidState, ErrMismatch})
        => /\ ret.status = 403
           /\ ret.msg = StateRejection(ErrInvalidState)

\* a callback was refused for a state whose entry existed, with another
\* correlator
C32_Witness ==
    /\ ret.op = "GetOAuthState" /\ ret.err = ErrMismatch
    /\ ret.status = 403
    /\ \E h \in HexTokens : ret.arg[1] = h /\ h \in randTokens

\* C33: pollForToken issues no poll request later than 90 seconds after
\* it started.
C33_NoRequestAfterDeadline ==
    ret.op = "pollForToken" => ret.at <= PollDeadlineMs

C34_RejectedBeforeAccess ==
    [][ /\ \A c \in Codes, st \in StateInputs :
              (handleTokenCallback(c, st) /\ (c = "" \/ st = <<>>))
                 => /\ ret'.status = 400
                    /\ stores' = stores /\ reqs' = reqs /\ hist' = hist
        /\ \A tok \in Presentable : \A h \in Headers(tok) :
              (/\ VerifyRequest(h) \/ RevokeRequest(h)
               /\ ~(Len(h) > 7 /\ SubSeq(h, 1, 7) = BearerPrefix))
                 => /\ ret'.status = 401
                    /\ stores' = stores /\ reqs' = reqs /\ hist' = hist ]_vars

\* a revoke request with a header that is not "Bearer " and a token has been
\* answered 401 while a handed-out token is registered and not revoked and a
\* state entry waits to be consumed
C34_Witness ==
    /\ ret.op = "handleTokenRevoke" /\ ret.status = 401 /\ ret.err = ErrAuthFormat
    /\ \E j \in JTIs : jwtMeta[j].set /\ ~jwtRevoked[j].set /\ j \in hist.handed
    /\ \E h \in HexTokens : oauthState[h].set

\* C35: a bearer token that handleTokenCallback has just handed out in a
\* 200 response has a registration under its jti, for its athlete; a token
\* is handed out only after it was registered, and a callback whose
\* registration step fails answers 500 and hands nothing out.
C35_HandedOutRegistered ==
    /\ (ret.op = "handleTokenCallback" /\ ret.status = 200)
          => /\ ret.jti \in hist.handed
             /\ jwtMeta[ret.jti].set
             /\ jwtMeta[ret.jti].val.athlete_id = minted[ret.jti].sub
    /\ \A j \in hist.handed : j \in hist.registered
    /\ (ret.op = "handleTokenCallback" /\ ret.status = 500)
          => \A j \in JTIs :
                (minted[j].made /\ ~jwtMeta[j].set /\ j \notin hist.registered)
                    => j \notin hist.handed

\* the second login's token has just been handed out, registered
C35_Witness ==
    /\ ret.op = "handleTokenCallback" /\ ret.status = 200
    /\ ret.jti = JtiNames[2]
    /\ jwtMeta[JtiNames[2]].set /\ jwtMeta[JtiNames[2]].volatile
    /\ reqs = EmptyBag

\* C36: when get has just returned a refreshed access token without error,
\* the refreshed pair has been persisted: the save succeeded and the store
\* does not still hold the old pair.
C36_RefreshedOnlyAfterSave ==
    (ret.op = "fetchTokenInfo" /\ ret.err = "" /\ ret.flag)
        => /\ ret.saved
           /\ stravaToken[ret.athlete].set
           /\ Decrypt(stravaToken[ret.athlete].val.access_token, Secret).ok
           /\ Decrypt(stravaToken[ret.athlete].val.access_token, Secret).pt
                 = ret.access

\* C37: a consume that fails with the mismatch error has deleted the entry
\* it read; an entry once gone does not come back, and every later consume
\* of its random part, the exactly issued value included, fails as invalid
\* or expired.
C37_MismatchBurns ==
    [][\A h \in HexTokens :
          /\ (/\ ret'.op = "GetOAuthState" /\ ret'.err = ErrMismatch
              /\ Len(ret'.arg) >= 1 /\ ret'.arg[1] = h)
                => oauthState[h].set /\ ~oauthState'[h].set
          /\ (h \in randTokens /\ ~oauthState[h].set)
                => /\ ~oauthState'[h].set
                   /\ (/\ ret'.op = "GetOAuthState"
                       /\ ret'.arg \in hist.issued
                       /\ ret'.arg[1] = h)
                         => ret'.err = ErrInvalidState ]_vars

\* a consume has just failed with the mismatch error, well before the entry
\* would have expired, and the entry is gone
C37_Witness ==
    /\ ret.op = "GetOAuthState" /\ ret.err = ErrMismatch
    /\ now < Seconds(StateTTLSeconds)
    /\ \E h \in HexTokens :
          /\ ret.arg[1] = h
          /\ ~oauthState[h].set
          /\ \E st \in hist.issued : st[1] = h /\ st \notin hist.okValues

\* C38: a consume that succeeds with a non-empty session ID returns the
\* session ID that was given to the issue call of the entry it consumed; an
\* entry issued without one is never consumed with a non-empty session ID.
C38_OnlyIssuedCorrelator ==
    [][(ret'.op = "GetOAuthState" /\ ret'.err = "" /\ ret'.val # <<>>)
          => StateValue(ret'.arg[1], ret'.val) \in hist.issued ]_vars

\* C39: at most one POST /token/revoke is answered 200 for a token: no
\* request is answered 200 for a token for which a request has been
\* answered 200 before.
C39_OneRevokeWins ==
    [][(ret'.op = "RevokeJWTToken" /\ ret'.status = 200)
          => ret'.jti \notin hist.revokedOk ]_vars

====
